---- MODULE Spec2Model ----
(***************************************************************************)
(* Role based access control of the InvenTree 'users' app                  *)
(* (src/backend/InvenTree/users/models.py): the RuleSet rows of a group,   *)
(* the pass that carries them over to the group's Django permissions       *)
(* (update_group_roles), and the authorization queries that read them.     *)
(*                                                                         *)
(* Strings that the code splits or joins on '_' are sequences of words:    *)
(* the table 'otp_static_statictoken' is <<"otp","static","statictoken">>. *)
(* A simplified permission string 'app.perm' is the pair <<app, perm>> of  *)
(* two such word sequences: 'part.view_part' is                            *)
(* << <<"part">>, <<"view","part">> >>.                                    *)
(***************************************************************************)
EXTENDS Integers, Sequences, FiniteSets, TLC

VARIABLES
    rule_sets,       \* [group -> [ruleset name -> flags]]: the users_ruleset rows
    permissions,     \* [group -> set of Permission objects]: group.permissions
    user_groups,     \* [user -> set of groups]: user.groups
    content_type,    \* the django_content_type rows: set of [app_label, model]
    auth_permission, \* the auth_permission rows: set of Permission objects
    session_cache,   \* [cache key -> TRUE | FALSE]: the session cache
    call_stack,      \* [thread -> the passes it is running, innermost first]
    last_op,         \* the operation that ended last, its input and result
    n_saves,         \* number of RuleSet.save / Group.save calls so far
    n_checks,        \* number of authorization queries so far
    auth_user,       \* [user that exists -> [is_superuser]]: the auth_user rows
    auth_group,      \* the groups that exist: the auth_group rows
    deleted,         \* the users and groups that have been deleted
    owner,           \* the users_owner rows: set of [pk, owner_type, owner_id]
    owner_seq,       \* the primary key given to the last users_owner row
    primary_group,   \* [user -> group | None]: user.profile.primary_group
    api_token        \* the users_apitoken rows: set of [pk, key]

\* The users and groups, their Owners and the profiles of the users
subject_vars ==
    <<auth_user, auth_group, deleted, owner, owner_seq, primary_group>>

vars == <<rule_sets, permissions, user_groups, content_type, auth_permission,
          session_cache, call_stack, last_op, n_saves, n_checks, auth_user,
          auth_group, deleted, owner, owner_seq, primary_group, api_token>>

----------------------------------------------------------------------------
(* Bounds of the model *)

MaxSaves == 2
MaxChecks == 2

\* The longest key a token is saved with, and the number of tokens saved
MaxKeyLen == 24
MaxTokens == 2

----------------------------------------------------------------------------
(* RuleSet: the static rule table *)

RULESET_CHOICES ==
    << <<"admin", "Admin">>,
       <<"part_category", "Part Categories">>,
       <<"part", "Parts">>,
       <<"stocktake", "Stocktake">>,
       <<"stock_location", "Stock Locations">>,
       <<"stock", "Stock Items">>,
       <<"build", "Build Orders">>,
       <<"purchase_order", "Purchase Orders">>,
       <<"sales_order", "Sales Orders">>,
       <<"return_order", "Return Orders">> >>

RULESET_NAMES == [i \in 1..Len(RULESET_CHOICES) |-> RULESET_CHOICES[i][1]]

RULESET_PERMISSIONS == <<"view", "add", "change", "delete">>

\* settings.SITE_MULTI: the multi-site option, off unless configured
SITE_MULTI == FALSE

ruleset_models ==
    [admin |-> <<
        <<"auth", "group">>,
        <<"auth", "user">>,
        <<"auth", "permission">>,
        <<"users", "apitoken">>,
        <<"users", "ruleset">>,
        <<"report", "labeltemplate">>,
        <<"report", "reportasset">>,
        <<"report", "reportsnippet">>,
        <<"report", "reporttemplate">>,
        <<"account", "emailaddress">>,
        <<"account", "emailconfirmation">>,
        <<"socialaccount", "socialaccount">>,
        <<"socialaccount", "socialapp">>,
        <<"socialaccount", "socialtoken">>,
        <<"otp", "totp", "totpdevice">>,
        <<"otp", "static", "statictoken">>,
        <<"otp", "static", "staticdevice">>,
        <<"mfa", "authenticator">>,
        <<"plugin", "pluginconfig">>,
        <<"plugin", "pluginsetting">>,
        <<"plugin", "notificationusersetting">>,
        <<"common", "barcodescanresult">>,
        <<"common", "newsfeedentry">>,
        <<"taggit", "tag">>,
        <<"taggit", "taggeditem">>,
        <<"flags", "flagstate">>,
        <<"machine", "machineconfig">>,
        <<"machine", "machinesetting">>
     >>,
     part_category |-> <<
        <<"part", "partcategory">>,
        <<"part", "partcategoryparametertemplate">>,
        <<"part", "partcategorystar">>
     >>,
     part |-> <<
        <<"part", "part">>,
        <<"part", "partpricing">>,
        <<"part", "bomitem">>,
        <<"part", "bomitemsubstitute">>,
        <<"part", "partsellpricebreak">>,
        <<"part", "partinternalpricebreak">>,
        <<"part", "parttesttemplate">>,
        <<"part", "partparametertemplate">>,
        <<"part", "partparameter">>,
        <<"part", "partrelated">>,
        <<"part", "partstar">>,
        <<"part", "partcategorystar">>,
        <<"company", "supplierpart">>,
        <<"company", "manufacturerpart">>,
        <<"company", "manufacturerpartparameter">>
     >>,
     stocktake |-> <<
        <<"part", "partstocktake">>,
        <<"part", "partstocktakereport">>
     >>,
     stock_location |-> <<
        <<"stock", "stocklocation">>,
        <<"stock", "stocklocationtype">>
     >>,
     stock |-> <<
        <<"stock", "stockitem">>,
        <<"stock", "stockitemtracking">>,
        <<"stock", "stockitemtestresult">>
     >>,
     build |-> <<
        <<"part", "part">>,
        <<"part", "partcategory">>,
        <<"part", "bomitem">>,
        <<"part", "bomitemsubstitute">>,
        <<"build", "build">>,
        <<"build", "builditem">>,
        <<"build", "buildline">>,
        <<"stock", "stockitem">>,
        <<"stock", "stocklocation">>
     >>,
     purchase_order |-> <<
        <<"company", "company">>,
        <<"company", "contact">>,
        <<"company", "address">>,
        <<"company", "manufacturerpart">>,
        <<"company", "manufacturerpartparameter">>,
        <<"company", "supplierpart">>,
        <<"company", "supplierpricebreak">>,
        <<"order", "purchaseorder">>,
        <<"order", "purchaseorderlineitem">>,
        <<"order", "purchaseorderextraline">>
     >>,
     sales_order |-> <<
        <<"company", "company">>,
        <<"company", "contact">>,
        <<"company", "address">>,
        <<"order", "salesorder">>,
        <<"order", "salesorderallocation">>,
        <<"order", "salesorderlineitem">>,
        <<"order", "salesorderextraline">>,
        <<"order", "salesordershipment">>
     >>,
     return_order |-> <<
        <<"company", "company">>,
        <<"company", "contact">>,
        <<"company", "address">>,
        <<"order", "returnorder">>,
        <<"order", "returnorderlineitem">>,
        <<"order", "returnorderextraline">>
     >> ]


get_ruleset_models ==
    IF SITE_MULTI
    THEN [ruleset_models EXCEPT !.admin = Append(@, <<"sites", "site">>)]
    ELSE ruleset_models

get_ruleset_ignore ==
    <<
        <<"admin", "logentry">>,
        <<"contenttypes", "contenttype">>,
        <<"common", "attachment">>,
        <<"common", "customunit">>,
        <<"common", "dataoutput">>,
        <<"common", "inventreesetting">>,
        <<"common", "inventreeusersetting">>,
        <<"common", "notificationentry">>,
        <<"common", "notificationmessage">>,
        <<"common", "notesimage">>,
        <<"common", "projectcode">>,
        <<"common", "webhookendpoint">>,
        <<"common", "webhookmessage">>,
        <<"common", "inventreecustomuserstatemodel">>,
        <<"common", "selectionlistentry">>,
        <<"common", "selectionlist">>,
        <<"users", "owner">>,
        <<"users", "userprofile">>,
        <<"error", "report", "error">>,
        <<"exchange", "rate">>,
        <<"exchange", "exchangebackend">>,
        <<"usersessions", "usersession">>,
        <<"sessions", "session">>,
        <<"django", "q", "ormq">>,
        <<"django", "q", "failure">>,
        <<"django", "q", "task">>,
        <<"django", "q", "schedule">>,
        <<"django", "q", "success">>,
        <<"importer", "dataimportsession">>,
        <<"importer", "dataimportcolumnmap">>,
        <<"importer", "dataimportrow">>
    >>

RULESET_CHANGE_INHERIT == << <<"part", "partparameter">>, <<"part", "bomitem">> >>

RULE_OPTIONS == <<"can_view", "can_add", "can_change", "can_delete">>

Range(s) == {s[i] : i \in DOMAIN s}

----------------------------------------------------------------------------
(* The rows Django keeps beside the rule table *)

\* The four default permissions Django's create_permissions makes for a
\* content type: codename '<action>_<model>'.
default_permissions(ct) ==
    { [app_label |-> ct.app_label, model |-> ct.model,
       codename |-> <<RULESET_PERMISSIONS[i], ct.model>>] :
          i \in DOMAIN RULESET_PERMISSIONS }

\* Permission.natural_key(): (codename, app_label, model)
natural_key(p) == <<p.codename, p.app_label, p.model>>

AllFalse ==
    [can_view |-> FALSE, can_add |-> FALSE, can_change |-> FALSE,
     can_delete |-> FALSE]

----------------------------------------------------------------------------
(* String helpers *)

\* split_model('part_partparameter') = ('partparameter', 'part')
split_model(model) ==
    LET n == Len(model)
        app == SubSeq(model, 1, n - 1)
    IN  <<model[n], app>>

\* get_model_permission_string: f'{app}.{permission}_{model}'
get_model_permission_string(model, permission) ==
    LET s == split_model(model)
    IN  <<s[2], <<permission, s[1]>>>>

\* split_permission(app, 'view_part') = ('view_part', 'part'); the change it
\* makes to app is local to it.
split_permission(app, perm) ==
    LET permission_name == perm[1]
        model == Tail(perm)
        perm2 == IF Len(model) > 1
                 THEN <<permission_name, model[Len(model)]>>
                 ELSE perm
    IN  <<perm2, model[Len(model)]>>

----------------------------------------------------------------------------
(* RuleSet.save: the normalisation of the flags before the row is written *)

\* RuleSet.save that stores every row with can_view set
save_flags_with_view(flags) ==
    [can_view |-> TRUE, can_add |-> flags.can_add,
     can_change |-> flags.can_add \/ flags.can_delete \/ flags.can_change,
     can_delete |-> flags.can_delete]

\* save_flags without its second rule (496-497), the variant C3 is tried
\* against
save_flags_first_rule(flags) ==
    IF flags.can_add \/ flags.can_change \/ flags.can_delete
    THEN [flags EXCEPT !.can_view = TRUE]
    ELSE flags

save_flags(flags) ==
    LET f1 == IF flags.can_add \/ flags.can_change \/ flags.can_delete
              THEN [flags EXCEPT !.can_view = TRUE]
              ELSE flags
    IN  IF f1.can_add \/ f1.can_delete
        THEN [f1 EXCEPT !.can_change = TRUE]
        ELSE f1

----------------------------------------------------------------------------
(* update_group_roles                                                      *)
(*                                                                         *)
(* A pass is a frame on the call stack of the thread that runs it:         *)
(*   group                 the group it reconciles                         *)
(*   pc, i                 where it stands: "fetch" before round i of the  *)
(*                         loop over RULESET_CHOICES, "models" when the    *)
(*                         round has created its row and has its models    *)
(*                         to go through, then "add", "delete", "inherit"  *)
(*   group_permissions     the permission strings read when it began       *)
(*   rulesets              the rows fetched before the loop                *)
(*   permissions_to_add, permissions_to_delete                             *)
(*   model, ruleset        the loop variables as the loops leave them      *)
(*   caller                the call that began the pass                    *)

\* add_model without the test `permission_string not in permissions_to_add`
\* of line 580, the variant C4 is tried against
add_model_unguarded(name, action, allowed, model, loc) ==
    LET permission_string == get_model_permission_string(model, action)
    IN  IF allowed
        THEN [loc EXCEPT !.permissions_to_delete = @ \ {permission_string},
                         !.permissions_to_add = @ \cup {permission_string}]
        ELSE [loc EXCEPT !.permissions_to_delete = @ \cup {permission_string}]

\* add_model that leaves an allowed permission among those to delete
add_model_keep_delete(name, action, allowed, model, loc) ==
    LET permission_string == get_model_permission_string(model, action)
    IN  IF allowed
        THEN [loc EXCEPT !.permissions_to_add = @ \cup {permission_string}]
        ELSE IF permission_string \notin loc.permissions_to_add
             THEN [loc EXCEPT
                       !.permissions_to_delete = @ \cup {permission_string}]
             ELSE loc

\* add_model (nested function).  Its body reads `model`, the loop variable
\* of the enclosing function, where its parameter `name` is meant.
add_model(name, action, allowed, model, loc) ==
    LET permission_string == get_model_permission_string(model, action)
    IN  IF allowed
        THEN [loc EXCEPT !.permissions_to_delete = @ \ {permission_string},
                         !.permissions_to_add = @ \cup {permission_string}]
        ELSE IF permission_string \notin loc.permissions_to_add
             THEN [loc EXCEPT
                       !.permissions_to_delete = @ \cup {permission_string}]
             ELSE loc

\* get_permission_object (nested function): "ok" with the Permission,
\* "None" when the content type is unknown, "DoesNotExist" when
\* Permission.objects.get raises (that exception is not caught).
get_permission_object(permission_string) ==
    LET app == permission_string[1]
        sp == split_permission(app, permission_string[2])
        perm == sp[1]
        model == sp[2]
        ct == [app_label |-> app, model |-> model]
        p == [app_label |-> app, model |-> model, codename |-> perm]
    IN  IF ct \notin content_type
        THEN [kind |-> "None"]
        ELSE IF p \notin auth_permission
             THEN [kind |-> "DoesNotExist"]
             ELSE [kind |-> "ok", permission |-> p]

\* The body of `for model in models` (603-609): the four add_model calls
model_round(model, ruleset, loc) ==
    LET l1 == add_model(model, "view", ruleset.can_view, model, loc)
        l2 == add_model(model, "add", ruleset.can_add, model, l1)
        l3 == add_model(model, "change", ruleset.can_change, model, l2)
        l4 == add_model(model, "delete", ruleset.can_delete, model, l3)
    IN  [l4 EXCEPT !.model = model]

\* for model in models, rounds lo..hi in their order: the rounds up to the
\* middle, then the rest from where those end.
RECURSIVE model_loop(_, _, _, _, _)
model_loop(models, lo, hi, ruleset, loc) ==
    IF lo > hi
    THEN loc
    ELSE IF lo = hi
    THEN model_round(models[lo], ruleset, loc)
    ELSE LET mid == (lo + hi) \div 2
             first == model_loop(models, lo, mid, ruleset, loc)
         IN  IF first.model = models[mid]
             THEN model_loop(models, mid + 1, hi, ruleset, first)
             ELSE first

\* RuleSet.get_models() (505-507)
get_models(name) ==
    IF name \in DOMAIN get_ruleset_models
    THEN get_ruleset_models[name]
    ELSE <<>>

\* Round i of `for r in RuleSet.RULESET_CHOICES` from `models =` on
\* (600-609), with the row `ruleset`; the frame then stands before the
\* next round or, after the last one, before the loop that adds.
visit_models(f, ruleset) ==
    LET models == get_models(RULESET_CHOICES[f.i][1])
        loc == model_loop(models, 1, Len(models), ruleset, f)
    IN  [loc EXCEPT !.ruleset = ruleset,
                    !.i = f.i + 1,
                    !.pc = IF f.i = Len(RULESET_CHOICES)
                           THEN "add" ELSE "fetch"]

\* update_group_roles with the snapshot of the permissions taken over all
\* groups instead of the group of the pass
update_group_roles_all_groups(group, group_rule_sets, group_permissions, caller) ==
    [group |-> group, pc |-> "fetch", i |-> 1,
     group_permissions |->
         { <<natural_key(p)[2], natural_key(p)[1]>> :
              p \in UNION { permissions[g] : g \in DOMAIN permissions } },
     rulesets |-> group_rule_sets,
     permissions_to_add |-> {}, permissions_to_delete |-> {},
     model |-> <<>>, ruleset |-> AllFalse,
     caller |-> caller]

\* update_group_roles that begins with every permission the group holds
\* among those to delete
update_group_roles_delete_held(group, group_rule_sets, group_permissions, caller) ==
    [group |-> group, pc |-> "fetch", i |-> 1,
     group_permissions |->
         { <<natural_key(p)[2], natural_key(p)[1]>> : p \in group_permissions },
     rulesets |-> group_rule_sets,
     permissions_to_add |-> {},
     permissions_to_delete |->
         { <<natural_key(p)[2], natural_key(p)[1]>> : p \in group_permissions },
     model |-> <<>>, ruleset |-> AllFalse,
     caller |-> caller]

\* The pass as it stands before the loop over RULESET_CHOICES (544-586):
\* the permission strings of the group and its RuleSet rows are read from
\* the group's rows and permissions in the database.
update_group_roles(group, group_rule_sets, group_permissions, caller) ==
    [group |-> group, pc |-> "fetch", i |-> 1,
     group_permissions |->
         { <<natural_key(p)[2], natural_key(p)[1]>> : p \in group_permissions },
     rulesets |-> group_rule_sets,
     permissions_to_add |-> {}, permissions_to_delete |-> {},
     model |-> <<>>, ruleset |-> AllFalse,
     caller |-> caller]

INHERIT_ACTIONS == <<"view", "change", "add", "delete">>

\* The loop over RULESET_CHANGE_INHERIT and the actions (664-686); step k
\* is pair (k-1) \div 4 + 1, action (k-1) % 4 + 1.  perms is the group's
\* permissions as the steps before k leave them.  The result says whether
\* a lookup raised.
RECURSIVE inherit_loop(_, _, _)
inherit_loop(k, perms, f) ==
    IF k > Len(RULESET_CHANGE_INHERIT) * Len(INHERIT_ACTIONS)
    THEN [permissions |-> perms, raised |-> FALSE, frame |-> f]
    ELSE LET pair == RULESET_CHANGE_INHERIT[
                         ((k - 1) \div Len(INHERIT_ACTIONS)) + 1]
             parent == pair[1]
             child == pair[2]
             action == INHERIT_ACTIONS[((k - 1) % Len(INHERIT_ACTIONS)) + 1]
             parent_child_string == <<parent, child>>
             parent_perm == << <<parent>>, <<action, parent>> >>
             child_perm == << <<parent>>, <<action, child>> >>
         IN  IF parent_perm \in f.group_permissions
                /\ child_perm \notin f.group_permissions
             THEN LET f2 == add_model(parent_child_string, action,
                                      f.ruleset.can_delete, f.model, f)
                      permission == get_permission_object(child_perm)
                  IN  IF permission.kind = "DoesNotExist"
                      THEN [permissions |-> perms, raised |-> TRUE,
                            frame |-> f2]
                      ELSE inherit_loop(k + 1,
                               IF permission.kind = "ok"
                               THEN perms \cup {permission.permission}
                               ELSE perms,
                               f2)
             ELSE inherit_loop(k + 1, perms, f)

\* The permission strings of a set that resolve to a Permission, those
\* Permissions, and the strings whose lookup raises
resolved(strings) ==
    { get_permission_object(s).permission :
         s \in { t \in strings : get_permission_object(t).kind = "ok" } }

raising(strings) ==
    { s \in strings : get_permission_object(s).kind = "DoesNotExist" }

----------------------------------------------------------------------------
(* Authorization queries.  Each returns its result and the session cache   *)
(* as the call leaves it.                                                  *)

\* Users are named by their primary key.  None is the absent user.
None == "None"

Users == {"alice", "root"}

is_superuser ==
    [u \in Users |-> u \in DOMAIN auth_user /\ auth_user[u].is_superuser]

\* InvenTree.cache.get_session_cache / set_session_cache: a key-value store
\* scoped to the session; get yields None for a key that is not stored.
get_session_cache(cache, key) ==
    IF key \in DOMAIN cache
    THEN [is_none |-> FALSE, value |-> cache[key]]
    ELSE [is_none |-> TRUE]

set_session_cache(cache, key, value) == (key :> value) @@ cache

\* check_user_role without the branch for 'view' (748-750), the variant C8
\* is tried against
check_user_role_no_view(user, role, permission, cache) ==
    IF user = None
    THEN [result |-> FALSE, raises |-> FALSE, cache |-> cache]
    ELSE IF is_superuser[user]
    THEN [result |-> TRUE, raises |-> FALSE, cache |-> cache]
    ELSE LET cache_key == <<"role", user, role, permission>>
             cached == get_session_cache(cache, cache_key)
             result ==
                 \E group \in user_groups[user] :
                    \E name \in DOMAIN rule_sets[group] :
                       LET rule == rule_sets[group][name]
                       IN  /\ name = role
                           /\ \/ permission = "add" /\ rule.can_add
                              \/ permission = "change" /\ rule.can_change
                              \/ permission = "delete" /\ rule.can_delete
         IN  IF ~cached.is_none
             THEN [result |-> cached.value, raises |-> FALSE, cache |-> cache]
             ELSE [result |-> result, raises |-> FALSE,
                   cache |-> set_session_cache(cache, cache_key, result)]

\* check_user_role that goes through the rows whatever the cache holds
check_user_role_uncached(user, role, permission, cache) ==
    IF user = None
    THEN [result |-> FALSE, raises |-> FALSE, cache |-> cache]
    ELSE IF is_superuser[user]
    THEN [result |-> TRUE, raises |-> FALSE, cache |-> cache]
    ELSE LET cache_key == <<"role", user, role, permission>>
             result ==
                 \E group \in user_groups[user] :
                    \E name \in DOMAIN rule_sets[group] :
                       LET rule == rule_sets[group][name]
                       IN  /\ name = role
                           /\ \/ permission = "add" /\ rule.can_add
                              \/ permission = "change" /\ rule.can_change
                              \/ permission = "view" /\ rule.can_view
                              \/ permission = "delete" /\ rule.can_delete
         IN  [result |-> result, raises |-> FALSE,
              cache |-> set_session_cache(cache, cache_key, result)]

\* check_user_role that takes any flag of the row for the permission asked
check_user_role_any_flag(user, role, permission, cache) ==
    IF user = None
    THEN [result |-> FALSE, raises |-> FALSE, cache |-> cache]
    ELSE IF is_superuser[user]
    THEN [result |-> TRUE, raises |-> FALSE, cache |-> cache]
    ELSE LET cache_key == <<"role", user, role, permission>>
             cached == get_session_cache(cache, cache_key)
             result ==
                 \E group \in user_groups[user] :
                    \E name \in DOMAIN rule_sets[group] :
                       LET rule == rule_sets[group][name]
                       IN  /\ name = role
                           /\ \/ rule.can_add
                              \/ rule.can_change
                              \/ rule.can_view
                              \/ rule.can_delete
         IN  IF ~cached.is_none
             THEN [result |-> cached.value, raises |-> FALSE, cache |-> cache]
             ELSE [result |-> result, raises |-> FALSE,
                   cache |-> set_session_cache(cache, cache_key, result)]

\* check_user_role that reads the cache before it asks whether the user is
\* a superuser
check_user_role_cache_first(user, role, permission, cache) ==
    IF user = None
    THEN [result |-> FALSE, raises |-> FALSE, cache |-> cache]
    ELSE LET cache_key == <<"role", user, role, permission>>
             cached == get_session_cache(cache, cache_key)
             result ==
                 \/ is_superuser[user]
                 \/ \E group \in user_groups[user] :
                       \E name \in DOMAIN rule_sets[group] :
                          LET rule == rule_sets[group][name]
                          IN  /\ name = role
                              /\ \/ permission = "add" /\ rule.can_add
                                 \/ permission = "change" /\ rule.can_change
                                 \/ permission = "view" /\ rule.can_view
                                 \/ permission = "delete" /\ rule.can_delete
         IN  IF ~cached.is_none
             THEN [result |-> cached.value, raises |-> FALSE, cache |-> cache]
             ELSE [result |-> result, raises |-> FALSE,
                   cache |-> set_session_cache(cache, cache_key, result)]

\* check_user_role (710-759)
check_user_role(user, role, permission, cache) ==
    IF user = None
    THEN [result |-> FALSE, raises |-> FALSE, cache |-> cache]
    ELSE IF is_superuser[user]
    THEN [result |-> TRUE, raises |-> FALSE, cache |-> cache]
    ELSE LET cache_key == <<"role", user, role, permission>>
             cached == get_session_cache(cache, cache_key)
             result ==
                 \E group \in user_groups[user] :
                    \E name \in DOMAIN rule_sets[group] :
                       LET rule == rule_sets[group][name]
                       IN  /\ name = role
                           /\ \/ permission = "add" /\ rule.can_add
                              \/ permission = "change" /\ rule.can_change
                              \/ permission = "view" /\ rule.can_view
                              \/ permission = "delete" /\ rule.can_delete
         IN  IF ~cached.is_none
             THEN [result |-> cached.value, raises |-> FALSE, cache |-> cache]
             ELSE [result |-> result, raises |-> FALSE,
                   cache |-> set_session_cache(cache, cache_key, result)]

\* The loop over the roles that ends with the first role that touches the
\* table, whether it grants or not: the variant C7 is tried against
RECURSIVE role_loop_first(_, _, _, _, _)
role_loop_first(i, user, table, permission, cache) ==
    IF i > Len(RULESET_NAMES)
    THEN [result |-> FALSE, raises |-> FALSE, cache |-> cache]
    ELSE LET role == RULESET_NAMES[i]
         IN  IF table \in Range(get_ruleset_models[role])
             THEN check_user_role(user, role, permission, cache)
             ELSE role_loop_first(i + 1, user, table, permission, cache)

\* check_table_permission, the loop over the roles that touch the table
\* (445-449): the first role that grants ends it.
RECURSIVE role_loop(_, _, _, _, _)
role_loop(i, user, table, permission, cache) ==
    IF i > Len(RULESET_NAMES)
    THEN [result |-> FALSE, raises |-> FALSE, cache |-> cache]
    ELSE LET role == RULESET_NAMES[i]
         IN  IF table \in Range(get_ruleset_models[role])
             THEN LET r == check_user_role(user, role, permission, cache)
                  IN  IF r.result
                      THEN r
                      ELSE role_loop(i + 1, user, table, permission, r.cache)
             ELSE role_loop(i + 1, user, table, permission, cache)

\* The loop over the inheritance pairs left out: the variant C6 is tried
\* against
parent_loop_off(i, user, table, cache) ==
    [result |-> FALSE, raises |-> FALSE, cache |-> cache]

\* check_table_permission, the loop over the inheritance pairs (451-459)
RECURSIVE parent_loop(_, _, _, _)
parent_loop(i, user, table, cache) ==
    IF i > Len(RULESET_CHANGE_INHERIT)
    THEN [result |-> FALSE, raises |-> FALSE, cache |-> cache]
    ELSE LET parent == RULESET_CHANGE_INHERIT[i][1]
             child == RULESET_CHANGE_INHERIT[i][2]
             parent_child_string == <<parent, child>>
         IN  IF parent_child_string = table
             THEN LET r == check_user_role(user, parent, "change", cache)
                  IN  IF r.result
                      THEN r
                      ELSE parent_loop(i + 1, user, table, r.cache)
             ELSE parent_loop(i + 1, user, table, cache)

\* check_table_permission without the look at get_ruleset_ignore
check_table_permission_no_ignore(user, table, permission, cache) ==
    IF user = None
    THEN [result |-> FALSE, raises |-> TRUE, cache |-> cache]
    ELSE IF is_superuser[user]
    THEN [result |-> TRUE, raises |-> FALSE, cache |-> cache]
    ELSE LET r == role_loop(1, user, table, permission, cache)
         IN  IF r.result
             THEN r
             ELSE parent_loop(1, user, table, r.cache)

\* RuleSet.check_table_permission (434-467).  Its first statement reads
\* user.is_superuser, which raises AttributeError when user is None: the
\* call then returns nothing (raises is TRUE and result has no meaning).
check_table_permission(user, table, permission, cache) ==
    IF user = None
    THEN [result |-> FALSE, raises |-> TRUE, cache |-> cache]
    ELSE IF is_superuser[user]
    THEN [result |-> TRUE, raises |-> FALSE, cache |-> cache]
    ELSE IF table \in Range(get_ruleset_ignore)
    THEN [result |-> TRUE, raises |-> FALSE, cache |-> cache]
    ELSE LET r == role_loop(1, user, table, permission, cache)
         IN  IF r.result
             THEN r
             ELSE parent_loop(1, user, table, r.cache)

\* User.has_perm('app.codename') for an active user without permissions of
\* their own: some group of the user holds the permission.
has_perm(user, permission_name) ==
    \E group \in user_groups[user] :
       \E p \in permissions[group] :
          <<p.app_label, p.codename>> = permission_name

\* check_user_permission (689-707); model is the model class, given by its
\* _meta.app_label and _meta.model_name.
check_user_permission(user, model, permission) ==
    IF user = None
    THEN FALSE
    ELSE IF is_superuser[user]
    THEN TRUE
    ELSE LET permission_name ==
                 <<model.app_label, <<permission, model.model_name>>>>
         IN  has_perm(user, permission_name)


----------------------------------------------------------------------------
(* The state machine *)

Groups == {"g1", "g2"}

\* The threads of the server that run saves; MainThread runs them when
\* no two run at once.
Threads == {"t1", "t2"}

MainThread == "t1"

\* The tables of the rule table, and the content type of a table
Tables == UNION { Range(get_ruleset_models[r]) : r \in DOMAIN get_ruleset_models }

ContentTypeOf(table) ==
    [app_label |-> split_model(table)[2], model |-> split_model(table)[1]]

\* Tables whose content type may be missing from the database
MissingTables == { <<"part", "partpricing">> }

Flag(view, add, change, delete) ==
    [can_view |-> view, can_add |-> add, can_change |-> change,
     can_delete |-> delete]

\* The rows the administrator writes: group, ruleset name, flags as given
Writes ==
    { <<"g1", "part", Flag(FALSE, TRUE, FALSE, FALSE)>>,
      <<"g1", "part", Flag(FALSE, FALSE, TRUE, FALSE)>>,
      <<"g1", "part", Flag(FALSE, FALSE, FALSE, FALSE)>>,
      <<"g1", "build", Flag(TRUE, FALSE, FALSE, FALSE)>>,
      <<"g1", "build", Flag(FALSE, FALSE, TRUE, FALSE)>>,
      <<"g2", "part", Flag(TRUE, FALSE, FALSE, FALSE)>> }

\* The rows written between the queries
CheckedWrites ==
    { <<"g1", "part", Flag(FALSE, TRUE, FALSE, FALSE)>>,
      <<"g1", "part", Flag(FALSE, FALSE, FALSE, FALSE)>>,
      <<"g1", "build", Flag(FALSE, FALSE, TRUE, FALSE)>> }

\* The queries made: role and action, table and action
CheckedRoles == { <<"part", "view">>, <<"part", "change">> }

CheckedTables ==
    { << <<"part", "part">>, "view" >>,
      << <<"part", "part">>, "add" >>,
      << <<"part", "partparameter">>, "delete" >>,
      << <<"part", "bomitem">>, "delete" >>,
      << <<"users", "owner">>, "view" >> }

CheckedModels == { << <<"part", "part">>, "view" >> }

----------------------------------------------------------------------------
(* Owner and UserProfile.  A user or a group is given as the pair of its   *)
(* kind ("user" or "group") and its primary key.                           *)

\* InvenTree.ready.isImportingData(): the processes of the server do not
\* import data
isImportingData == FALSE

\* None where an Owner is expected (no row has the primary key 0)
NoOwner == [pk |-> 0, owner_type |-> None, owner_id |-> None]

\* Owner.get_owner (857-881): the Owner of the user or group, or None
get_owner(user_or_group) ==
    LET rows == { o \in owner : /\ o.owner_type = user_or_group[1]
                                /\ o.owner_id = user_or_group[2] }
    IN  IF rows = {} THEN NoOwner ELSE CHOOSE o \in rows : TRUE

\* cls.objects.create(owner=obj) as Owner.create calls it (850-853): the
\* constraint unique_owner (775-777) refuses a second row for the owner
\* with IntegrityError, for which Owner.create returns None.
objects_create(obj) ==
    IF \E o \in owner : o.owner_type = obj[1] /\ o.owner_id = obj[2]
    THEN [owner |-> owner, owner_seq |-> owner_seq, result |-> NoOwner]
    ELSE LET o == [pk |-> owner_seq + 1, owner_type |-> obj[1],
                   owner_id |-> obj[2]]
         IN  [owner |-> owner \cup {o}, owner_seq |-> owner_seq + 1,
              result |-> o]

\* Owner.create without the look at the existing rows
Owner_create_unchecked(obj) == objects_create(obj)

\* Owner.create (842-855), when nothing runs between its two statements
Owner_create(obj) ==
    LET existing_owner == get_owner(obj)
    IN  IF existing_owner = NoOwner
        THEN objects_create(obj)
        ELSE [owner |-> owner, owner_seq |-> owner_seq,
              result |-> existing_owner]

\* Group.name, which is unique among the groups
Group_name == [g \in {"g1", "g2"} |-> IF g = "g1" THEN "buyers" ELSE "stores"]

\* get_related_owners with every Owner of a user taken as related to a
\* group
get_related_owners_all_users(self, include_group) ==
    IF self.owner_type = "group"
    THEN { o \in owner :
             \/ o.owner_type = "user"
             \/ /\ include_group
                /\ o.owner_type = "group"
                /\ o.owner_id = self.owner_id }
    ELSE IF self.owner_type = "user"
    THEN {self}
    ELSE {}

\* Owner.get_related_owners (884-915).  For the Owner of a group: the users
\* that have a group of the name of self.owner among their groups (893),
\* and the Owner rows of these users, with the Owner row of the group when
\* include_group is set (895-910); for the Owner of a user, [self].
get_related_owners(self, include_group) ==
    IF self.owner_type = "group"
    THEN LET users == { user \in DOMAIN auth_user :
                           \E g \in user_groups[user] :
                              Group_name[g] = Group_name[self.owner_id] }
         IN  { o \in owner :
                 \/ o.owner_type = "user" /\ o.owner_id \in users
                 \/ /\ include_group
                    /\ o.owner_type = "group"
                    /\ o.owner_id = self.owner_id }
    ELSE IF self.owner_type = "user"
    THEN {self}
    ELSE {}

\* is_user_allowed that asks for the membership of the user and not for
\* the Owner of the user
is_user_allowed_by_membership(self, user, include_group) ==
    IF self.owner_type = "group"
    THEN self.owner_id \in user_groups[user]
    ELSE self.owner_id = user

\* Owner.is_user_allowed (917-920).  `None in related_owners` is False.
is_user_allowed(self, user, include_group) ==
    LET user_owner == get_owner(<<"user", user>>)
    IN  user_owner \in get_related_owners(self, include_group)

\* create_owner as it behaves while data is imported
create_owner_importing(instance) ==
    [owner |-> owner, owner_seq |-> owner_seq, result |-> NoOwner]

\* The receiver create_owner (923-929)
create_owner(instance) ==
    IF ~isImportingData
    THEN Owner_create(instance)
    ELSE [owner |-> owner, owner_seq |-> owner_seq, result |-> NoOwner]

\* The receiver create_owner runs for the saved group g
Receive_create_owner(g) ==
    LET r == create_owner(<<"group", g>>)
    IN  /\ owner' = r.owner
        /\ owner_seq' = r.owner_seq

\* UserProfile.save (1052-1056) of the profile of the user with primary_group
\* set to the group given (or None): the primary groups after it
UserProfile_save(user, group) ==
    [primary_group EXCEPT ![user] =
        IF group # None /\ group \notin user_groups[user] THEN None ELSE group]

\* The receiver validate_primary_group_on_save (1069-1076) for the saved
\* group: the primary groups after it
validate_primary_group_on_save(instance) ==
    [user \in Users |->
        IF /\ instance \in user_groups[user]
           /\ primary_group[user] # None
           /\ primary_group[user] \notin user_groups[user]
        THEN None
        ELSE primary_group[user]]

\* The users and groups of the model, each with its Owner; no profile has a
\* primary group
Registered ==
    /\ auth_user = [alice |-> [is_superuser |-> FALSE],
                    root |-> [is_superuser |-> TRUE]]
    /\ auth_group = Groups
    /\ deleted = {}
    /\ owner = { [pk |-> 1, owner_type |-> "group", owner_id |-> "g1"],
                 [pk |-> 2, owner_type |-> "group", owner_id |-> "g2"],
                 [pk |-> 3, owner_type |-> "user", owner_id |-> "alice"],
                 [pk |-> 4, owner_type |-> "user", owner_id |-> "root"] }
    /\ owner_seq = 4
    /\ primary_group = [user \in Users |-> None]

\* No thread is running a save
Idle == \A t \in Threads : call_stack[t] = <<>>

\* Groups exist with no RuleSet row and no permission (update_group_roles
\* returns at once while the app cannot access the database), the session
\* cache is empty, and every content type but the missing ones is there
\* with its default permissions.
Database(missing) ==
    /\ rule_sets = [g \in Groups |-> <<>>]
    /\ permissions = [g \in Groups |-> {}]
    /\ user_groups = [alice |-> Groups, root |-> {}]
    /\ content_type = { ContentTypeOf(t) : t \in Tables \ missing }
    /\ auth_permission = UNION { default_permissions(ct) : ct \in content_type }
    /\ api_token = {}
    /\ session_cache = <<>>
    /\ call_stack = [t \in Threads |-> <<>>]
    /\ last_op = [op |-> "init"]
    /\ n_saves = 0
    /\ n_checks = 0
    /\ Registered

Init == \E missing \in SUBSET MissingTables : Database(missing)

SaveOps == {"RuleSet.save", "Group.save"}

\* The group whose save ended last without an exception, when no other
\* operation has run since
Previous ==
    IF last_op.op \in SaveOps /\ last_op.ended /\ ~last_op.raised
    THEN last_op.group
    ELSE "-"

\* RuleSet.save() of the row (group, name) with the given flags, up to the
\* loop of the pass that group.save() begins (487-503, 544-586)
RuleSet_save(t, g, name, flags) ==
    /\ call_stack[t] = <<>>
    /\ g \in auth_group
    /\ rule_sets' = [rule_sets EXCEPT ![g] = (name :> save_flags(flags)) @@ @]
    /\ call_stack' = [call_stack EXCEPT ![t] =
           << update_group_roles(g,
                  (name :> save_flags(flags)) @@ rule_sets[g], permissions[g],
                  [op |-> "RuleSet.save", name |-> name, flags |-> flags,
                   before |-> permissions[g],
                   rows_before |-> rule_sets[g],
                   previous |-> Previous]) >>]
    /\ last_op' = [op |-> "RuleSet.save", group |-> g, ended |-> FALSE]
    /\ n_saves' = n_saves + 1
    /\ Receive_create_owner(g)
    /\ UNCHANGED <<permissions, user_groups, content_type, auth_permission, api_token,
                   session_cache, n_checks, auth_user, auth_group, deleted,
                   primary_group>>

\* Group.save() of a group that exists, or of a new one (which gets a
\* primary key that no group has had): of the post_save receivers,
\* create_owner runs and then create_missing_rule_sets begins the pass on
\* the group.
Group_save(t, g) ==
    /\ call_stack[t] = <<>>
    /\ <<"group", g>> \notin deleted
    /\ auth_group' = auth_group \cup {g}
    /\ call_stack' = [call_stack EXCEPT ![t] =
           << update_group_roles(g, rule_sets[g], permissions[g],
                  [op |-> "Group.save", before |-> permissions[g],
                   rows_before |-> rule_sets[g],
                   previous |-> Previous]) >>]
    /\ last_op' = [op |-> "Group.save", group |-> g, ended |-> FALSE]
    /\ n_saves' = n_saves + 1
    /\ Receive_create_owner(g)
    /\ UNCHANGED <<rule_sets, permissions, user_groups, content_type,
                   auth_permission, api_token, session_cache, n_checks, auth_user,
                   deleted, primary_group>>

\* The frame f of thread t, its innermost, goes on as f2
Continue(t, f2) ==
    call_stack' = [call_stack EXCEPT ![t] = <<f2>> \o Tail(@)]

\* Round i of the loop over RULESET_CHOICES (588-609).  A row that is
\* neither among those fetched nor in the database is created:
\* RuleSet.objects.create saves it, which saves the group, which begins a
\* pass inside this one.
VisitRuleset(t) ==
    /\ call_stack[t] # <<>>
    /\ LET f == Head(call_stack[t])
           g == f.group
           rulename == RULESET_CHOICES[f.i][1]
       IN  /\ f.pc = "fetch"
           /\ IF rulename \in DOMAIN f.rulesets
              THEN /\ Continue(t, visit_models(f, f.rulesets[rulename]))
                   /\ UNCHANGED <<rule_sets, owner, owner_seq>>
              ELSE IF rulename \in DOMAIN rule_sets[g]
              THEN /\ Continue(t, visit_models(f, rule_sets[g][rulename]))
                   /\ UNCHANGED <<rule_sets, owner, owner_seq>>
              ELSE /\ Receive_create_owner(g)
                   /\ rule_sets' = [rule_sets EXCEPT ![g] =
                          (rulename :> save_flags(AllFalse)) @@ @]
                   /\ call_stack' = [call_stack EXCEPT ![t] =
                          << update_group_roles(g,
                                 (rulename :> save_flags(AllFalse))
                                     @@ rule_sets[g],
                                 permissions[g],
                                 [op |-> "RuleSet.objects.create",
                                  name |-> rulename]),
                             [f EXCEPT !.pc = "models",
                                       !.ruleset = save_flags(AllFalse)] >>
                          \o Tail(@)]
    /\ UNCHANGED <<permissions, user_groups, content_type, auth_permission, api_token,
                   session_cache, last_op, n_saves, n_checks, auth_user,
                   auth_group, deleted, primary_group>>

\* The round goes on with the row it has created (600-609)
VisitModels(t) ==
    /\ call_stack[t] # <<>>
    /\ LET f == Head(call_stack[t])
       IN  /\ f.pc = "models"
           /\ Continue(t, visit_models(f, f.ruleset))
    /\ UNCHANGED <<rule_sets, permissions, user_groups, content_type,
                   auth_permission, api_token, session_cache, last_op, n_saves, n_checks>>
    /\ UNCHANGED subject_vars

\* What the save that thread t was running has been, for last_op
Ended(t, f, raised) ==
    LET outer == call_stack[t][Len(call_stack[t])]
    IN  [op |-> outer.caller.op, group |-> outer.group, ended |-> TRUE,
         caller |-> outer.caller, raised |-> raised,
         group_permissions |-> f.group_permissions,
         permissions_to_add |-> f.permissions_to_add,
         permissions_to_delete |-> f.permissions_to_delete]

\* An exception leaves every pass and save on the stack of thread t
Raise(t, f) ==
    /\ call_stack' = [call_stack EXCEPT ![t] = <<>>]
    /\ last_op' = Ended(t, f, TRUE)

\* for perm in permissions_to_add (636-648).  When a lookup raises, any
\* part of the permissions that resolve may have been added before it.
AddPermissions(t) ==
    /\ call_stack[t] # <<>>
    /\ LET f == Head(call_stack[t])
           g == f.group
           to_add == f.permissions_to_add \ f.group_permissions
       IN  /\ f.pc = "add"
           /\ IF raising(to_add) # {}
              THEN /\ \E S \in SUBSET resolved(to_add) :
                         permissions' = [permissions EXCEPT ![g] = @ \cup S]
                   /\ Raise(t, f)
              ELSE /\ permissions' =
                         [permissions EXCEPT ![g] = @ \cup resolved(to_add)]
                   /\ Continue(t, [f EXCEPT !.pc = "delete"])
                   /\ UNCHANGED last_op
    /\ UNCHANGED <<rule_sets, user_groups, content_type, auth_permission, api_token,
                   session_cache, n_saves, n_checks>>
    /\ UNCHANGED subject_vars

\* for perm in permissions_to_delete (650-662)
DeletePermissions(t) ==
    /\ call_stack[t] # <<>>
    /\ LET f == Head(call_stack[t])
           g == f.group
           to_delete == f.permissions_to_delete \cap f.group_permissions
       IN  /\ f.pc = "delete"
           /\ IF raising(to_delete) # {}
              THEN /\ \E S \in SUBSET resolved(to_delete) :
                         permissions' = [permissions EXCEPT ![g] = @ \ S]
                   /\ Raise(t, f)
              ELSE /\ permissions' =
                         [permissions EXCEPT ![g] = @ \ resolved(to_delete)]
                   /\ Continue(t, [f EXCEPT !.pc = "inherit"])
                   /\ UNCHANGED last_op
    /\ UNCHANGED <<rule_sets, user_groups, content_type, auth_permission, api_token,
                   session_cache, n_saves, n_checks>>
    /\ UNCHANGED subject_vars

\* The inheritance loop (664-686), after which the pass returns: to the
\* round of the pass that created a row, or out of the save.  The receiver
\* validate_primary_group_on_save runs for the saved group after it.
InheritPermissions(t) ==
    /\ call_stack[t] # <<>>
    /\ LET f == Head(call_stack[t])
           g == f.group
           o == inherit_loop(1, permissions[g], f)
       IN  /\ f.pc = "inherit"
           /\ permissions' = [permissions EXCEPT ![g] = o.permissions]
           /\ IF o.raised
              THEN /\ Raise(t, o.frame)
                   /\ UNCHANGED primary_group
              ELSE /\ call_stack' = [call_stack EXCEPT ![t] = Tail(@)]
                   /\ last_op' = IF Len(call_stack[t]) = 1
                                 THEN Ended(t, o.frame, FALSE)
                                 ELSE last_op
                   /\ primary_group' = validate_primary_group_on_save(g)
    /\ UNCHANGED <<rule_sets, user_groups, content_type, auth_permission, api_token,
                   session_cache, n_saves, n_checks, auth_user, auth_group,
                   deleted, owner, owner_seq>>

\* Where the threads stand: the saves begun so far and, for each thread,
\* how many passes it is in and the pc of the innermost
Position ==
    [t \in Threads |->
        IF call_stack[t] = <<>>
        THEN <<n_saves, Len(call_stack[t]), "-">>
        ELSE <<n_saves, Len(call_stack[t]), Head(call_stack[t]).pc>>]

\* check_user_role(user, role, permission) is called
Call_check_user_role(user, role, permission) ==
    /\ LET r == check_user_role(user, role, permission, session_cache)
       IN  /\ session_cache' = r.cache
           /\ last_op' = [op |-> "check_user_role", user |-> user,
                          role |-> role, permission |-> permission,
                          result |-> r.result, raises |-> r.raises,
                          cache_before |-> session_cache,
                          at |-> Position]
    /\ n_checks' = n_checks + 1
    /\ UNCHANGED <<rule_sets, permissions, user_groups, content_type,
                   auth_permission, api_token, call_stack, n_saves>>
    /\ UNCHANGED subject_vars

\* check_user_role(user, role, permission) is called while the session
\* cache is unavailable: get_session_cache yields None for every key and
\* set_session_cache stores nothing.
Call_check_user_role_without_cache(user, role, permission) ==
    /\ LET r == check_user_role(user, role, permission, <<>>)
       IN  last_op' = [op |-> "check_user_role (no cache)", user |-> user,
                       role |-> role, permission |-> permission,
                       result |-> r.result, raises |-> r.raises,
                       cache_before |-> session_cache,
                       at |-> Position]
    /\ n_checks' = n_checks + 1
    /\ UNCHANGED <<rule_sets, permissions, user_groups, content_type,
                   auth_permission, api_token, session_cache, call_stack, n_saves>>
    /\ UNCHANGED subject_vars

\* RuleSet.check_table_permission(user, table, permission) is called
Call_check_table_permission(user, table, permission) ==
    /\ LET r == check_table_permission(user, table, permission, session_cache)
       IN  /\ session_cache' = r.cache
           /\ last_op' = [op |-> "check_table_permission", user |-> user,
                          table |-> table, permission |-> permission,
                          result |-> r.result, raises |-> r.raises,
                          cache_before |-> session_cache,
                          at |-> Position]
    /\ n_checks' = n_checks + 1
    /\ UNCHANGED <<rule_sets, permissions, user_groups, content_type,
                   auth_permission, api_token, call_stack, n_saves>>
    /\ UNCHANGED subject_vars

\* check_user_permission(user, model, permission) is called with the model
\* class of the table
Call_check_user_permission(user, table, permission) ==
    /\ LET model == [app_label |-> split_model(table)[2],
                     model_name |-> split_model(table)[1]]
       IN  last_op' = [op |-> "check_user_permission", user |-> user,
                       table |-> table, permission |-> permission,
                       result |-> check_user_permission(user, model, permission),
                       raises |-> FALSE,
                       cache_before |-> session_cache,
                       at |-> Position]
    /\ n_checks' = n_checks + 1
    /\ UNCHANGED <<rule_sets, permissions, user_groups, content_type,
                   auth_permission, api_token, session_cache, call_stack, n_saves>>
    /\ UNCHANGED subject_vars

----------------------------------------------------------------------------
(* Users, groups, memberships and profiles.  Each of these operations runs *)
(* while no save is running.                                               *)

\* What the operations on users, groups and memberships leave alone
UnchangedDatabase ==
    UNCHANGED <<content_type, auth_permission, api_token, session_cache, call_stack,
                n_saves, n_checks>>

\* User.save() of a user that exists, or of a new one (which gets a primary
\* key that no user has had), with is_superuser as given.  Of the post_save
\* receivers, create_owner (924) runs, then create_or_update_user_profile
\* (1060-1065).
User_save(user, superuser) ==
    /\ Idle
    /\ <<"user", user>> \notin deleted
    /\ LET created == user \notin DOMAIN auth_user
           r == create_owner(<<"user", user>>)
       IN  /\ auth_user' = (user :> [is_superuser |-> superuser]) @@ auth_user
           /\ owner' = r.owner
           /\ owner_seq' = r.owner_seq
           /\ primary_group' =
                 IF created
                 THEN [primary_group EXCEPT ![user] = None]
                 ELSE UserProfile_save(user, primary_group[user])
           /\ last_op' = [op |-> "User.save", subject |-> <<"user", user>>,
                          created |-> created, raises |-> FALSE,
                          owner_before |-> owner]
    /\ UNCHANGED <<rule_sets, permissions, user_groups, auth_group, deleted>>
    /\ UnchangedDatabase

\* user.delete(): the profile and the memberships of the user go with it
\* (on_delete CASCADE), then the receiver delete_owner (932-937) runs.  It
\* calls delete() on what get_owner returns: on None that is an
\* AttributeError, which undoes the deletion.
User_delete(user) ==
    /\ Idle
    /\ user \in DOMAIN auth_user
    /\ LET o == get_owner(<<"user", user>>)
       IN  IF o = NoOwner
           THEN /\ last_op' = [op |-> "User.delete",
                               subject |-> <<"user", user>>, raises |-> TRUE,
                               owner_before |-> owner]
                /\ UNCHANGED <<auth_user, user_groups, primary_group, owner,
                               deleted>>
           ELSE /\ auth_user' =
                      [u \in DOMAIN auth_user \ {user} |-> auth_user[u]]
                /\ user_groups' = [user_groups EXCEPT ![user] = {}]
                /\ primary_group' = [primary_group EXCEPT ![user] = None]
                /\ owner' = owner \ {o}
                /\ deleted' = deleted \cup { <<"user", user>> }
                /\ last_op' = [op |-> "User.delete",
                               subject |-> <<"user", user>>, raises |-> FALSE,
                               owner_before |-> owner]
    /\ UNCHANGED <<rule_sets, permissions, auth_group, owner_seq>>
    /\ UnchangedDatabase

\* group.delete(): the RuleSet rows, the permissions and the memberships of
\* the group go with it (on_delete CASCADE) and primary_group is set to
\* None where it was the group (on_delete SET_NULL, 1040); then the
\* receivers delete_owner (932-937) and validate_primary_group_on_delete
\* (1079-1086) run, the second over a group that has no user left.
Group_delete(g) ==
    /\ Idle
    /\ g \in auth_group
    /\ LET o == get_owner(<<"group", g>>)
       IN  IF o = NoOwner
           THEN /\ last_op' = [op |-> "Group.delete",
                               subject |-> <<"group", g>>, raises |-> TRUE,
                               owner_before |-> owner]
                /\ UNCHANGED <<rule_sets, permissions, user_groups,
                               primary_group, owner, auth_group, deleted>>
           ELSE /\ auth_group' = auth_group \ {g}
                /\ rule_sets' = [rule_sets EXCEPT ![g] = <<>>]
                /\ permissions' = [permissions EXCEPT ![g] = {}]
                /\ user_groups' = [u \in Users |-> user_groups[u] \ {g}]
                /\ primary_group' =
                      [u \in Users |-> IF primary_group[u] = g
                                       THEN None
                                       ELSE primary_group[u]]
                /\ owner' = owner \ {o}
                /\ deleted' = deleted \cup { <<"group", g>> }
                /\ last_op' = [op |-> "Group.delete",
                               subject |-> <<"group", g>>, raises |-> FALSE,
                               owner_before |-> owner]
    /\ UNCHANGED <<auth_user, owner_seq>>
    /\ UnchangedDatabase

\* The receiver validate_primary_group_on_group_change (1089-1096) for a
\* user whose groups have become `groups`, with the action of the signal:
\* the primary groups after it
validate_primary_group_on_group_change(user, action, groups) ==
    IF /\ action \in {"post_add", "post_remove"}
       /\ primary_group[user] # None
       /\ primary_group[user] \notin groups
    THEN [primary_group EXCEPT ![user] = None]
    ELSE primary_group

\* user.groups.add(group), user.groups.remove(group), user.groups.clear():
\* the rows change, then m2m_changed is sent with the user as instance
groups_change(user, action, groups) ==
    /\ Idle
    /\ user \in DOMAIN auth_user
    /\ groups \subseteq auth_group
    /\ user_groups' = [user_groups EXCEPT ![user] = groups]
    /\ primary_group' =
          validate_primary_group_on_group_change(user, action, groups)
    /\ last_op' = [op |-> "user.groups", action |-> action, user |-> user,
                   raises |-> FALSE]
    /\ UNCHANGED <<rule_sets, permissions, auth_user, auth_group, deleted,
                   owner, owner_seq>>
    /\ UnchangedDatabase

groups_add(user, group) ==
    groups_change(user, "post_add", user_groups[user] \cup {group})

groups_remove(user, group) ==
    groups_change(user, "post_remove", user_groups[user] \ {group})

groups_clear(user) == groups_change(user, "post_clear", {})

\* group.user_set.add(user), group.user_set.remove(user): m2m_changed is
\* sent with the group as instance, and the receiver reads
\* instance.profile, which a Group does not have: the AttributeError undoes
\* the change of the rows.
user_set_change(group, action) ==
    /\ Idle
    /\ group \in auth_group
    /\ last_op' = [op |-> "group.user_set", action |-> action,
                   group |-> group, raises |-> TRUE]
    /\ UNCHANGED <<rule_sets, permissions, user_groups, auth_user, auth_group,
                   deleted, owner, owner_seq, primary_group>>
    /\ UnchangedDatabase

\* group.user_set.clear(): the receiver does nothing for post_clear
user_set_clear(group) ==
    /\ Idle
    /\ group \in auth_group
    /\ user_groups' = [u \in Users |-> user_groups[u] \ {group}]
    /\ last_op' = [op |-> "group.user_set", action |-> "post_clear",
                   group |-> group, raises |-> FALSE]
    /\ UNCHANGED <<rule_sets, permissions, auth_user, auth_group, deleted,
                   owner, owner_seq, primary_group>>
    /\ UnchangedDatabase

\* profile.primary_group = group (or None); profile.save()
Profile_save(user, group) ==
    /\ Idle
    /\ user \in DOMAIN auth_user
    /\ group \in auth_group \cup {None}
    /\ primary_group' = UserProfile_save(user, group)
    /\ last_op' = [op |-> "UserProfile.save", user |-> user, group |-> group,
                   raises |-> FALSE]
    /\ UNCHANGED <<rule_sets, permissions, user_groups, auth_user, auth_group,
                   deleted, owner, owner_seq>>
    /\ UnchangedDatabase

\* Owner.create(obj) is called for a user or a group that exists
Call_Owner_create(obj) ==
    /\ Idle
    /\ \/ obj[1] = "user" /\ obj[2] \in DOMAIN auth_user
       \/ obj[1] = "group" /\ obj[2] \in auth_group
    /\ LET r == Owner_create(obj)
       IN  /\ owner' = r.owner
           /\ owner_seq' = r.owner_seq
           /\ last_op' = [op |-> "Owner.create", subject |-> obj,
                          result |-> r.result, raises |-> FALSE,
                          owner_before |-> owner]
    /\ UNCHANGED <<rule_sets, permissions, user_groups, auth_user, auth_group,
                   deleted, primary_group>>
    /\ UnchangedDatabase

\* owner.get_related_owners(include_group) is called on an Owner row
Call_get_related_owners(self, include_group) ==
    /\ Idle
    /\ self \in owner
    /\ last_op' = [op |-> "get_related_owners", self |-> self,
                   include_group |-> include_group,
                   result |-> get_related_owners(self, include_group),
                   raises |-> FALSE]
    /\ UNCHANGED <<rule_sets, permissions, user_groups>>
    /\ UNCHANGED subject_vars
    /\ UnchangedDatabase

\* owner.is_user_allowed(user, include_group) is called on an Owner row
Call_is_user_allowed(self, user, include_group) ==
    /\ Idle
    /\ self \in owner
    /\ user \in DOMAIN auth_user
    /\ last_op' = [op |-> "is_user_allowed", self |-> self, user |-> user,
                   include_group |-> include_group,
                   result |-> is_user_allowed(self, user, include_group),
                   raises |-> FALSE]
    /\ UNCHANGED <<rule_sets, permissions, user_groups>>
    /\ UNCHANGED subject_vars
    /\ UnchangedDatabase

----------------------------------------------------------------------------
(* ApiToken.  A key is the sequence of its characters.                     *)

Min(a, b) == IF a < b THEN a ELSE b

Max(a, b) == IF a > b THEN a ELSE b

\* s[:n], s[-n:] and c * m of Python, for n > 0
slice_to(s, n) == SubSeq(s, 1, Min(n, Len(s)))

slice_last(s, n) == SubSeq(s, Max(1, Len(s) - n + 1), Len(s))

repeat(c, m) == IF m <= 0 THEN <<>> ELSE [i \in 1..m |-> c]

\* The pk of a token that has not been saved
NoPk == 0

\* ApiToken.token (176-189)
token(self) ==
    IF self.pk = NoPk
    THEN self.key
    ELSE LET M == Len(self.key) - 20
         IN  slice_to(self.key, 8) \o repeat("*", M) \o slice_last(self.key, 12)

KeyChars ==
    << "0", "1", "2", "3", "4", "5", "6", "7", "8", "9", "a", "b", "c", "d",
       "e", "f", "g", "h", "i", "j", "k", "l", "m", "n", "o", "p", "q", "r",
       "s", "t", "u", "v", "w", "x", "y", "z" >>

\* A key of the given length, of characters that differ from each other
KeyOfLength(length) ==
    [i \in 1..length |-> KeyChars[((i - 1) % Len(KeyChars)) + 1]]

\* AuthToken.generate_key(): 40 hexadecimal digits
AuthToken_generate_key ==
    { [i \in 1..40 |-> KeyChars[((i * step) % 16) + 1]] : step \in {3, 7} }

\* ApiToken.generate_key (106-112): the prefix, the digits and the date
generate_key ==
    { <<"i", "n", "v", "-">> \o digits
         \o <<"-", "2", "0", "2", "6", "1", "1", "0", "3">> :
      digits \in AuthToken_generate_key }

\* The keys tokens are saved with: the field takes up to 100 characters
\* (121) and MinLengthValidator (122) is not run by save()
TokenKeys == { KeyOfLength(length) : length \in 1..MaxKeyLen } \cup generate_key

\* ApiToken(key=key).save(): the key is unique (120)
ApiToken_save(key) ==
    /\ Idle
    /\ Cardinality(api_token) < MaxTokens
    /\ IF \E t \in api_token : t.key = key
       THEN /\ last_op' = [op |-> "ApiToken.save", key |-> key, raises |-> TRUE]
            /\ UNCHANGED api_token
       ELSE /\ api_token' =
                  api_token \cup {[pk |-> Cardinality(api_token) + 1, key |-> key]}
            /\ last_op' = [op |-> "ApiToken.save", key |-> key, raises |-> FALSE]
    /\ UNCHANGED <<rule_sets, permissions, user_groups, content_type,
                   auth_permission, session_cache, call_stack, n_saves, n_checks>>
    /\ UNCHANGED subject_vars

\* The property token of a token object is read
Call_token(self) ==
    /\ Idle
    /\ last_op' = [op |-> "ApiToken.token", self |-> self,
                   result |-> token(self), raises |-> FALSE]
    /\ UNCHANGED <<rule_sets, permissions, user_groups, content_type,
                   auth_permission, api_token, session_cache, call_stack,
                   n_saves, n_checks>>
    /\ UNCHANGED subject_vars

----------------------------------------------------------------------------
(* The operations one after the other: a save runs all its steps before    *)
(* the next operation begins.  Spec is the saves alone.                    *)

SaveRuleSet(g, name, flags) ==
    /\ Idle
    /\ n_saves < MaxSaves
    /\ RuleSet_save(MainThread, g, name, flags)

SaveGroup(g) ==
    /\ Idle
    /\ n_saves < MaxSaves
    /\ Group_save(MainThread, g)

CheckUserRole(user, role, permission) ==
    /\ Idle
    /\ n_checks < MaxChecks
    /\ Call_check_user_role(user, role, permission)

CheckTablePermission(user, table, permission) ==
    /\ Idle
    /\ n_checks < MaxChecks
    /\ Call_check_table_permission(user, table, permission)

CheckUserPermission(user, table, permission) ==
    /\ Idle
    /\ n_checks < MaxChecks
    /\ Call_check_user_permission(user, table, permission)

\* The session ends and its cache with it
EndSession ==
    /\ Idle
    /\ session_cache # <<>>
    /\ session_cache' = <<>>
    /\ last_op' = [op |-> "end_session"]
    /\ UNCHANGED <<rule_sets, permissions, user_groups, content_type,
                   auth_permission, api_token, call_stack, n_saves, n_checks>>
    /\ UNCHANGED subject_vars

Next ==
    \/ \E w \in Writes : SaveRuleSet(w[1], w[2], w[3])
    \/ \E g \in Groups : SaveGroup(g)
    \/ \E t \in Threads : VisitRuleset(t)
    \/ \E t \in Threads : VisitModels(t)
    \/ \E t \in Threads : AddPermissions(t)
    \/ \E t \in Threads : DeletePermissions(t)
    \/ \E t \in Threads : InheritPermissions(t)

Spec == Init /\ [][Next]_vars

----------------------------------------------------------------------------
(* SpecCheck: queries of one session between the saves *)

InitCheck == Database({})

NextCheck ==
    \/ \E w \in CheckedWrites : SaveRuleSet(w[1], w[2], w[3])
    \/ \E t \in Threads : VisitRuleset(t)
    \/ \E t \in Threads : VisitModels(t)
    \/ \E t \in Threads : AddPermissions(t)
    \/ \E t \in Threads : DeletePermissions(t)
    \/ \E t \in Threads : InheritPermissions(t)
    \/ \E user \in Users \cup {None}, q \in CheckedRoles :
          CheckUserRole(user, q[1], q[2])
    \/ \E user \in Users \cup {None}, q \in CheckedTables :
          CheckTablePermission(user, q[1], q[2])
    \/ \E user \in Users \cup {None}, q \in CheckedModels :
          CheckUserPermission(user, q[1], q[2])
    \/ EndSession

SpecCheck == InitCheck /\ [][NextCheck]_vars

----------------------------------------------------------------------------
(* SpecConc: a session queries while a thread saves.  No transaction       *)
(* encloses RuleSet.save and the pass it begins, and none encloses the     *)
(* pass: each statement that writes is on its own.                         *)

\* The rows written while the session queries
ConcurrentWrites ==
    { <<"g1", "part", Flag(FALSE, TRUE, FALSE, FALSE)>>,
      <<"g1", "part", Flag(FALSE, FALSE, FALSE, TRUE)>> }

InitConc == Database({})

ConcurrentSave(g, name, flags) ==
    /\ n_saves < MaxSaves
    /\ RuleSet_save(MainThread, g, name, flags)

ConcurrentCheckUserRole(user, role, permission) ==
    /\ n_checks < MaxChecks
    /\ Call_check_user_role(user, role, permission)

ConcurrentCheckUserPermission(user, table, permission) ==
    /\ n_checks < MaxChecks
    /\ Call_check_user_permission(user, table, permission)

NextConc ==
    \/ \E w \in ConcurrentWrites : ConcurrentSave(w[1], w[2], w[3])
    \/ \E t \in Threads : VisitRuleset(t)
    \/ \E t \in Threads : VisitModels(t)
    \/ \E t \in Threads : AddPermissions(t)
    \/ \E t \in Threads : DeletePermissions(t)
    \/ \E t \in Threads : InheritPermissions(t)
    \/ ConcurrentCheckUserRole("alice", "part", "add")
    \/ ConcurrentCheckUserPermission("alice", <<"part", "part">>, "add")

SpecConc == InitConc /\ [][NextConc]_vars

----------------------------------------------------------------------------
(* SpecRace: two threads save rows of one group at the same time.  The     *)
(* group has been saved before: it has a row for every ruleset.            *)

\* The rows of a group after its first Group.save: one for every ruleset,
\* as RuleSet.objects.create(group, name) leaves it
CreatedRows == [name \in Range(RULESET_NAMES) |-> save_flags(AllFalse)]

\* The rows the two threads write
RacingWrites ==
    { <<"g1", "part_category", Flag(TRUE, FALSE, FALSE, FALSE)>>,
      <<"g1", "part_category", Flag(FALSE, FALSE, FALSE, FALSE)>>,
      <<"g1", "stock_location", Flag(TRUE, FALSE, FALSE, FALSE)>> }

InitRace ==
    /\ rule_sets = [g \in Groups |-> CreatedRows]
    /\ permissions = [g \in Groups |-> {}]
    /\ user_groups = [alice |-> Groups, root |-> {}]
    /\ content_type = { ContentTypeOf(t) : t \in Tables }
    /\ auth_permission = UNION { default_permissions(ct) : ct \in content_type }
    /\ api_token = {}
    /\ session_cache = <<>>
    /\ call_stack = [t \in Threads |-> <<>>]
    /\ last_op = [op |-> "init"]
    /\ n_saves = 0
    /\ n_checks = 0
    /\ Registered

RacingSave(t, g, name, flags) ==
    /\ n_saves < MaxSaves
    /\ RuleSet_save(t, g, name, flags)

NextRace ==
    \/ \E t \in Threads, w \in RacingWrites : RacingSave(t, w[1], w[2], w[3])
    \/ \E t \in Threads : VisitRuleset(t)
    \/ \E t \in Threads : AddPermissions(t)
    \/ \E t \in Threads : DeletePermissions(t)
    \/ \E t \in Threads : InheritPermissions(t)

SpecRace == InitRace /\ [][NextRace]_vars

----------------------------------------------------------------------------
(* SpecLookup: saves on a database in which a content type or a            *)
(* permission of a content type may be missing.                            *)

\* Tables whose content type may be missing, and permissions that may be
\* missing though their content type is there
UnknownTables == { <<"stock", "stocklocationtype">> }

MissingPermissions ==
    { [app_label |-> <<"part">>, model |-> "partstocktake",
       codename |-> <<"delete", "partstocktake">>] }

LookupWrites ==
    { <<"g1", "stocktake", Flag(FALSE, FALSE, FALSE, TRUE)>>,
      <<"g1", "stocktake", Flag(FALSE, FALSE, FALSE, FALSE)>>,
      <<"g1", "stock_location", Flag(TRUE, FALSE, FALSE, FALSE)>>,
      <<"g1", "stock_location", Flag(FALSE, FALSE, FALSE, FALSE)>> }

InitLookup ==
    \E missing \in SUBSET UnknownTables, gone \in SUBSET MissingPermissions :
       /\ rule_sets = [g \in Groups |-> CreatedRows]
       /\ permissions = [g \in Groups |-> {}]
       /\ user_groups = [alice |-> Groups, root |-> {}]
       /\ content_type = { ContentTypeOf(t) : t \in Tables \ missing }
       /\ auth_permission =
             UNION { default_permissions(ct) : ct \in content_type } \ gone
       /\ api_token = {}
       /\ session_cache = <<>>
       /\ call_stack = [t \in Threads |-> <<>>]
       /\ last_op = [op |-> "init"]
       /\ n_saves = 0
       /\ n_checks = 0
       /\ Registered

NextLookup ==
    \/ \E w \in LookupWrites : SaveRuleSet(w[1], w[2], w[3])
    \/ \E t \in Threads : VisitRuleset(t)
    \/ \E t \in Threads : AddPermissions(t)
    \/ \E t \in Threads : DeletePermissions(t)
    \/ \E t \in Threads : InheritPermissions(t)

SpecLookup == InitLookup /\ [][NextLookup]_vars

----------------------------------------------------------------------------
(* SpecOwner: users and groups are made, saved and deleted, memberships    *)
(* and profiles change, one operation after the other.                     *)

\* The user alice and the group g1 exist, each with its Owner; alice is a
\* member of g1, which has been saved before.
InitOwner ==
    /\ rule_sets = [g \in Groups |-> IF g = "g1" THEN CreatedRows ELSE <<>>]
    /\ permissions = [g \in Groups |-> {}]
    /\ user_groups = [alice |-> {"g1"}, root |-> {}]
    /\ content_type = { ContentTypeOf(t) : t \in Tables }
    /\ auth_permission = UNION { default_permissions(ct) : ct \in content_type }
    /\ api_token = {}
    /\ session_cache = <<>>
    /\ call_stack = [t \in Threads |-> <<>>]
    /\ last_op = [op |-> "init"]
    /\ n_saves = 0
    /\ n_checks = 0
    /\ auth_user = [u \in {"alice"} |-> [is_superuser |-> FALSE]]
    /\ auth_group = {"g1"}
    /\ deleted = {}
    /\ owner = { [pk |-> 1, owner_type |-> "group", owner_id |-> "g1"],
                 [pk |-> 2, owner_type |-> "user", owner_id |-> "alice"] }
    /\ owner_seq = 2
    /\ primary_group = [user \in Users |-> None]

\* User.save() with is_superuser as it is, FALSE for a new user
SaveUser(user) == User_save(user, is_superuser[user])

NextOwner ==
    \/ \E user \in Users : SaveUser(user)
    \/ \E user \in Users : User_delete(user)
    \/ \E g \in Groups : SaveGroup(g)
    \/ \E t \in Threads : VisitRuleset(t)
    \/ \E t \in Threads : VisitModels(t)
    \/ \E t \in Threads : AddPermissions(t)
    \/ \E t \in Threads : DeletePermissions(t)
    \/ \E t \in Threads : InheritPermissions(t)
    \/ \E g \in Groups : Group_delete(g)
    \/ \E user \in Users, g \in Groups : groups_add(user, g)
    \/ \E user \in Users, g \in Groups : groups_remove(user, g)
    \/ \E user \in Users : groups_clear(user)
    \/ \E g \in Groups : user_set_change(g, "post_remove")
    \/ \E g \in Groups : user_set_clear(g)
    \/ \E user \in Users, g \in Groups \cup {None} : Profile_save(user, g)
    \/ \E user \in Users : Call_Owner_create(<<"user", user>>)
    \/ \E g \in Groups : Call_Owner_create(<<"group", g>>)

SpecOwner == InitOwner /\ [][NextOwner]_vars

----------------------------------------------------------------------------
(* SpecOwnerRace: threads call Owner.create at the same time.  The read of *)
(* the existing Owner (846) and the insert (851) are separate statements   *)
(* with no lock and no transaction around them.                            *)

\* The Owner rows the users and groups have when all were made outside an
\* import
RegisteredOwners ==
    { [pk |-> 1, owner_type |-> "group", owner_id |-> "g1"],
      [pk |-> 2, owner_type |-> "group", owner_id |-> "g2"],
      [pk |-> 3, owner_type |-> "user", owner_id |-> "alice"],
      [pk |-> 4, owner_type |-> "user", owner_id |-> "root"] }

\* All users and groups exist; those made during an import have no Owner
InitOwnerRace ==
    /\ rule_sets = [g \in Groups |-> CreatedRows]
    /\ permissions = [g \in Groups |-> {}]
    /\ user_groups = [alice |-> Groups, root |-> {}]
    /\ content_type = { ContentTypeOf(t) : t \in Tables }
    /\ auth_permission = UNION { default_permissions(ct) : ct \in content_type }
    /\ api_token = {}
    /\ session_cache = <<>>
    /\ call_stack = [t \in Threads |-> <<>>]
    /\ last_op = [op |-> "init"]
    /\ n_saves = 0
    /\ n_checks = 0
    /\ auth_user = [alice |-> [is_superuser |-> FALSE],
                    root |-> [is_superuser |-> TRUE]]
    /\ auth_group = Groups
    /\ deleted = {}
    /\ owner \in SUBSET RegisteredOwners
    /\ owner_seq = 4
    /\ primary_group = [user \in Users |-> None]

\* Owner.create(obj), line 846: existing_owner = cls.get_owner(obj)
Owner_create_get_owner(t, obj) ==
    /\ call_stack[t] = <<>>
    /\ call_stack' =
          [call_stack EXCEPT ![t] =
              << [pc |-> "Owner.create", obj |-> obj,
                  existing_owner |-> get_owner(obj)] >>]
    /\ UNCHANGED <<rule_sets, permissions, user_groups, content_type,
                   auth_permission, api_token, session_cache, last_op, n_saves, n_checks>>
    /\ UNCHANGED subject_vars

\* Owner.create(obj), lines 848-855: the insert when no Owner was read, the
\* Owner that was read otherwise.  `raced` tells that the insert hit the
\* unique constraint.
Owner_create_return(t) ==
    /\ call_stack[t] # <<>>
    /\ call_stack[t][1].pc = "Owner.create"
    /\ LET frame == call_stack[t][1]
           r == IF frame.existing_owner = NoOwner
                THEN objects_create(frame.obj)
                ELSE [owner |-> owner, owner_seq |-> owner_seq,
                      result |-> frame.existing_owner]
       IN  /\ owner' = r.owner
           /\ owner_seq' = r.owner_seq
           /\ last_op' = [op |-> "Owner.create", subject |-> frame.obj,
                          result |-> r.result, raises |-> FALSE,
                          owner_before |-> owner,
                          raced |-> /\ frame.existing_owner = NoOwner
                                    /\ r.result = NoOwner]
    /\ call_stack' = [call_stack EXCEPT ![t] = <<>>]
    /\ UNCHANGED <<rule_sets, permissions, user_groups, content_type,
                   auth_permission, api_token, session_cache, n_saves, n_checks,
                   auth_user, auth_group, deleted, primary_group>>

NextOwnerRace ==
    \/ \E t \in Threads, user \in Users :
          Owner_create_get_owner(t, <<"user", user>>)
    \/ \E t \in Threads, g \in Groups :
          Owner_create_get_owner(t, <<"group", g>>)
    \/ \E t \in Threads : Owner_create_return(t)

SpecOwnerRace == InitOwnerRace /\ [][NextOwnerRace]_vars

----------------------------------------------------------------------------
(* SpecSession: the queries of a session, between writes of rows, changes  *)
(* of membership and changes of is_superuser.                              *)

SessionWrites ==
    { <<"g1", "stocktake", Flag(TRUE, FALSE, FALSE, FALSE)>>,
      <<"g1", "stocktake", Flag(FALSE, FALSE, FALSE, FALSE)>> }

\* Role and action of the queries: an action outside RULESET_PERMISSIONS
\* and a role no row is named after are among them
SessionRoles ==
    { <<"stocktake", "view">>, <<"stocktake", "export">>,
      <<"no_such_role", "view">> }

\* users_owner and common_projectcode are in get_ruleset_ignore
SessionTables ==
    { << <<"users", "owner">>, "delete" >>,
      << <<"common", "projectcode">>, "export" >>,
      << <<"part", "partstocktake">>, "view" >> }

SessionModels == { << <<"part", "partstocktake">>, "view" >> }

\* Both groups have their rows, all flags false; alice is a member of g1
InitSession ==
    /\ rule_sets = [g \in Groups |-> CreatedRows]
    /\ permissions = [g \in Groups |-> {}]
    /\ user_groups = [alice |-> {"g1"}, root |-> {}]
    /\ content_type = { ContentTypeOf(t) : t \in Tables }
    /\ auth_permission = UNION { default_permissions(ct) : ct \in content_type }
    /\ api_token = {}
    /\ session_cache = <<>>
    /\ call_stack = [t \in Threads |-> <<>>]
    /\ last_op = [op |-> "init"]
    /\ n_saves = 0
    /\ n_checks = 0
    /\ Registered

CheckUserRoleWithoutCache(user, role, permission) ==
    /\ Idle
    /\ n_checks < MaxChecks
    /\ Call_check_user_role_without_cache(user, role, permission)

NextSession ==
    \/ \E w \in SessionWrites : SaveRuleSet(w[1], w[2], w[3])
    \/ \E t \in Threads : VisitRuleset(t)
    \/ \E t \in Threads : AddPermissions(t)
    \/ \E t \in Threads : DeletePermissions(t)
    \/ \E t \in Threads : InheritPermissions(t)
    \/ \E user \in Users \cup {None}, q \in SessionRoles :
          CheckUserRole(user, q[1], q[2])
    \/ \E user \in Users, q \in SessionRoles :
          CheckUserRoleWithoutCache(user, q[1], q[2])
    \/ \E user \in Users \cup {None}, q \in SessionTables :
          CheckTablePermission(user, q[1], q[2])
    \/ \E user \in Users, q \in SessionModels :
          CheckUserPermission(user, q[1], q[2])
    \/ EndSession
    \/ groups_add("alice", "g1")
    \/ groups_remove("alice", "g1")
    \/ \E superuser \in BOOLEAN : User_save("alice", superuser)

SpecSession == InitSession /\ [][NextSession]_vars

----------------------------------------------------------------------------
(* SpecImport: users and groups of which some were made while data was     *)
(* imported, so that create_owner made no Owner for them (928), are saved  *)
(* and deleted after the import.                                           *)

NextImport ==
    \/ \E user \in Users : SaveUser(user)
    \/ \E user \in Users : User_delete(user)
    \/ \E g \in Groups : Group_delete(g)
    \/ \E user \in Users, g \in Groups : groups_remove(user, g)
    \/ \E user \in Users, g \in Groups \cup {None} : Profile_save(user, g)
    \/ \E user \in Users : Call_Owner_create(<<"user", user>>)
    \/ \E g \in Groups : Call_Owner_create(<<"group", g>>)

SpecImport == InitOwnerRace /\ [][NextImport]_vars

----------------------------------------------------------------------------
(* SpecRelated: the Owners related to an Owner are asked for while users   *)
(* join and leave groups.  Some users and groups have no Owner.            *)

NextRelated ==
    \/ \E user \in Users, g \in Groups : groups_add(user, g)
    \/ \E user \in Users, g \in Groups : groups_remove(user, g)
    \/ \E g \in Groups : user_set_clear(g)
    \/ \E user \in Users : Call_Owner_create(<<"user", user>>)
    \/ \E self \in owner, include_group \in BOOLEAN :
          Call_get_related_owners(self, include_group)
    \/ \E self \in owner, user \in Users, include_group \in BOOLEAN :
          Call_is_user_allowed(self, user, include_group)

SpecRelated == InitOwnerRace /\ [][NextRelated]_vars

----------------------------------------------------------------------------
(* SpecToken: tokens are saved and displayed *)

NextToken ==
    \/ \E key \in TokenKeys : ApiToken_save(key)
    \/ \E self \in api_token : Call_token(self)
    \/ \E key \in TokenKeys : Call_token([pk |-> NoPk, key |-> key])

SpecToken == InitSession /\ [][NextToken]_vars

----------------------------------------------------------------------------
(* SpecDisjoint: two threads save rows of two different groups at the same *)
(* time, each thread one save after the other.                             *)

\* Thread, group, ruleset name and flags
DisjointWrites ==
    { <<"t1", "g1", "part_category", Flag(TRUE, FALSE, FALSE, FALSE)>>,
      <<"t1", "g1", "part_category", Flag(FALSE, FALSE, FALSE, FALSE)>>,
      <<"t2", "g2", "part_category", Flag(TRUE, FALSE, FALSE, FALSE)>>,
      <<"t2", "g2", "stock_location", Flag(TRUE, FALSE, FALSE, FALSE)>> }

NextDisjoint ==
    \/ \E w \in DisjointWrites : RacingSave(w[1], w[2], w[3], w[4])
    \/ \E t \in Threads : VisitRuleset(t)
    \/ \E t \in Threads : AddPermissions(t)
    \/ \E t \in Threads : DeletePermissions(t)
    \/ \E t \in Threads : InheritPermissions(t)

SpecDisjoint == InitRace /\ [][NextDisjoint]_vars

----------------------------------------------------------------------------
(* SpecFair: the saves of Spec, where a thread that is in a save goes on   *)
(* with it: nothing in the save waits for another thread.                  *)

\* The steps of a pass that visit a ruleset, and those that follow the
\* loop over the rulesets
VisitStep(t) == VisitRuleset(t) \/ VisitModels(t)

UpdateStep(t) ==
    AddPermissions(t) \/ DeletePermissions(t) \/ InheritPermissions(t)

\* A visiting step of thread t can be taken
VisitStepEnabled(t) ==
    /\ call_stack[t] # <<>>
    /\ Head(call_stack[t]).pc \in {"fetch", "models"}

\* Weak fairness of the steps of every thread.  For the visiting steps it
\* is written out, WF_vars(A) being []<>~ENABLED <<A>>_vars \/ []<><<A>>_vars,
\* with VisitStepEnabled(t) for ENABLED <<VisitStep(t)>>_vars.
SpecFair ==
    /\ Spec
    /\ \A t \in Threads :
          /\ WF_vars(UpdateStep(t))
          /\ []<>(~VisitStepEnabled(t)) \/ []<><<VisitStep(t)>>_vars

----------------------------------------------------------------------------
(* What the claims speak of *)

Actions == Range(RULESET_PERMISSIONS)

\* The flag of a RuleSet row for an action
can(ruleset, action) ==
    CASE action = "view" -> ruleset.can_view
      [] action = "add" -> ruleset.can_add
      [] action = "change" -> ruleset.can_change
      [] action = "delete" -> ruleset.can_delete

\* The rulesets that govern a table
Governing(table) ==
    { name \in Range(RULESET_NAMES) : table \in Range(get_ruleset_models[name]) }

\* Some ruleset of group g that governs the table has the flag for the action
Granted(g, table, action) ==
    \E name \in Governing(table) :
       /\ name \in DOMAIN rule_sets[g]
       /\ can(rule_sets[g][name], action)

\* The parent table and the child table of an inheritance pair
ParentTable(pair) == <<pair[1], pair[1]>>

ChildTable(pair) == <<pair[1], pair[2]>>

\* The permission strings desired for group g: those its rulesets grant
\* through the rule table, and with inheritance all four on the child of
\* each inheriting pair
Desired(g) ==
    { get_model_permission_string(x[1], x[2]) :
         x \in { y \in Tables \X Actions : Granted(g, y[1], y[2]) } }

\* The pairs whose parent table has `change` desired for group g or held by
\* it when the pass of the save that ended last began
Inheriting(g) ==
    { pair \in Range(RULESET_CHANGE_INHERIT) :
         \/ Granted(g, ParentTable(pair), "change")
         \/ get_model_permission_string(ParentTable(pair), "change")
               \in last_op.group_permissions }

DesiredWithInheritance(g) ==
    Desired(g) \cup
    UNION { { get_model_permission_string(ChildTable(pair), action) :
                 action \in Actions } : pair \in Inheriting(g) }

\* A save has ended without an exception and nothing has run since
Saved == last_op.op \in SaveOps /\ last_op.ended /\ ~last_op.raised

\* The query that ran last was made by a user who is not a superuser
Queried(op) ==
    /\ last_op.op = op
    /\ last_op.user \in Users
    /\ ~is_superuser[last_op.user]

CheckOps == {"check_user_role", "check_table_permission", "check_user_permission"}

----------------------------------------------------------------------------
(* The claims *)

\* C1: a save of a group that follows a save of the same group and writes
\* no row (Group.save, or RuleSet.save with the flags the row has) adds no
\* permission to the group and removes none: a second pass directly after
\* a first one changes nothing.
C1_SecondPassChangesNothing ==
    (/\ Saved
     /\ last_op.caller.previous = last_op.group
     /\ last_op.caller.rows_before = rule_sets[last_op.group])
    => permissions[last_op.group] = last_op.caller.before

\* C2: when a save has ended, the permissions of its group are exactly the
\* desired permissions that resolve, as the rows of the group give them
\* through the rule table and the inheritance pairs, whatever the group
\* held before.
C2_PermissionsAreTheDesired ==
    Saved =>
       permissions[last_op.group] =
          resolved(DesiredWithInheritance(last_op.group))

\* C3: every RuleSet row in the database has can_view when it has can_add,
\* can_change or can_delete, and has can_change when it has can_add or
\* can_delete; the row a RuleSet.save was given with can_add reads back
\* with can_view and can_change.
C3_RowsNormalised ==
    /\ \A g \in Groups :
          \A name \in DOMAIN rule_sets[g] :
             LET r == rule_sets[g][name]
             IN  /\ (r.can_add \/ r.can_change \/ r.can_delete) => r.can_view
                 /\ (r.can_add \/ r.can_delete) => r.can_change
    /\ (/\ last_op.op = "RuleSet.save"
        /\ last_op.ended
        /\ last_op.caller.flags.can_add)
       => LET r == rule_sets[last_op.group][last_op.caller.name]
          IN  r.can_add /\ r.can_view /\ r.can_change

\* C3, its case: a RuleSet.save given can_add alone has ended and the row
\* has can_view and can_change.
C3_Witness ==
    /\ last_op.op = "RuleSet.save"
    /\ last_op.ended
    /\ last_op.caller.flags =
          [can_view |-> FALSE, can_add |-> TRUE, can_change |-> FALSE,
           can_delete |-> FALSE]
    /\ rule_sets[last_op.group][last_op.caller.name].can_view
    /\ rule_sets[last_op.group][last_op.caller.name].can_change

\* C4: when a save has ended, every permission that some ruleset governing
\* its table grants is among the permissions to add, is not among those to
\* delete, and is held by the group when it resolves, whether the ruleset
\* that grants comes before or after one that does not.
C4_GrantsUnited ==
    Saved =>
       \A table \in Tables, action \in Actions :
          LET permission_string == get_model_permission_string(table, action)
          IN  Granted(last_op.group, table, action) =>
                 /\ permission_string \in last_op.permissions_to_add
                 /\ permission_string \notin last_op.permissions_to_delete
                 /\ resolved({permission_string})
                       \subseteq permissions[last_op.group]

\* C4, its case: a save has ended on a group in which the ruleset part
\* grants view and the ruleset build, visited after it, does not; part_part
\* is governed by both and the group holds part.view_part.
C4_Witness ==
    /\ Saved
    /\ Governing(<<"part", "part">>) = {"part", "build"}
    /\ rule_sets[last_op.group]["part"].can_view
    /\ ~rule_sets[last_op.group]["build"].can_view
    /\ [app_label |-> <<"part">>, model |-> "part",
        codename |-> <<"view", "part">>] \in permissions[last_op.group]

\* C5: when a save has ended and `change` on the parent table of an
\* inheritance pair was held by the group when the pass began or is desired
\* by its rows, the group holds view, add, change and delete on the child
\* table.
C5_ChildInheritsAll ==
    Saved =>
       \A pair \in Inheriting(last_op.group) :
          \A action \in Actions :
             resolved({get_model_permission_string(ChildTable(pair), action)})
                \subseteq permissions[last_op.group]

\* The user has `change` on the table: a ruleset that governs it has
\* can_change in one of the user's groups
HasChange(user, table) ==
    \E g \in user_groups[user] : Granted(g, table, "change")

\* The ruleset of that name has the flag for the action in one of the
\* user's groups
RoleGranted(user, role, action) ==
    \E g \in user_groups[user] :
       /\ role \in DOMAIN rule_sets[g]
       /\ can(rule_sets[g][role], action)

\* The query that ran last was check_table_permission(user, child, 'delete')
\* for the child table of the pair
QueriedChildDelete(pair) ==
    /\ Queried("check_table_permission")
    /\ last_op.table = ChildTable(pair)
    /\ last_op.permission = "delete"

\* C6 as stated: check_table_permission(user, C, 'delete') is true for the
\* child table C of an inheritance pair whenever the user has `change` on
\* the parent table P, whichever ruleset governing P grants it.
C6_ChildDeleteByChangeOnParentTable ==
    \A pair \in Range(RULESET_CHANGE_INHERIT) :
       (QueriedChildDelete(pair) /\ HasChange(last_op.user, ParentTable(pair)))
       => (~last_op.raises /\ last_op.result)

\* C6: check_table_permission(user, C, 'delete') is true for the child
\* table C of an inheritance pair when the ruleset named as the parent has
\* can_change in one of the user's groups and the session cache holds no
\* value for that role and 'change'.
C6_ChildDeleteByParentRole ==
    \A pair \in Range(RULESET_CHANGE_INHERIT) :
       (/\ QueriedChildDelete(pair)
        /\ RoleGranted(last_op.user, pair[1], "change")
        /\ <<"role", last_op.user, pair[1], "change">>
              \notin DOMAIN last_op.cache_before)
       => (~last_op.raises /\ last_op.result)

\* C6, its case: the query was made for a user whose groups have can_change
\* on the ruleset part and grant delete on the child table by no ruleset,
\* and it returned true.
C6_Witness ==
    \E pair \in Range(RULESET_CHANGE_INHERIT) :
       /\ QueriedChildDelete(pair)
       /\ RoleGranted(last_op.user, pair[1], "change")
       /\ <<"role", last_op.user, pair[1], "change">>
             \notin DOMAIN last_op.cache_before
       /\ \A g \in user_groups[last_op.user] :
             ~Granted(g, ChildTable(pair), "delete")
       /\ ~last_op.raises
       /\ last_op.result

\* The query that ran last was check_table_permission(user, T, 'view') for
\* a table T that two rulesets or more govern
QueriedSharedTableView ==
    /\ Queried("check_table_permission")
    /\ last_op.permission = "view"
    /\ \E A, B \in Governing(last_op.table) : A # B

QueriedAfterAdd ==
    \/ /\ Queried("check_user_role")
       /\ last_op.role = "part"
       /\ last_op.permission \in {"view", "change"}
    \/ /\ Queried("check_table_permission")
       /\ last_op.table = <<"part", "part">>
       /\ last_op.permission = "add"

\* The query that ran last is the one the scenario makes before the write,
\* and the groups of the user have no RuleSet row
QueriedWithoutRows ==
    /\ Queried("check_user_role")
    /\ last_op.role = "part"
    /\ last_op.permission = "view"
    /\ \A g \in user_groups[last_op.user] : rule_sets[g] = <<>>

\* C8 as stated: check_user_role(u, 'part', 'view') is false while the
\* groups of u have no row; once the row part of a group of u has been
\* saved with can_add, check_user_role(u, 'part', 'view'),
\* check_user_role(u, 'part', 'change') and
\* check_table_permission(u, 'part_part', 'add') are true, whatever the
\* session cache holds from the queries before the write.
C8_Scenario ==
    /\ QueriedWithoutRows => ~last_op.result
    /\ (QueriedAfterAdd /\ RoleGranted(last_op.user, "part", "add"))
       => (~last_op.raises /\ last_op.result)

\* C8: the same, for queries after the write that find in the session
\* cache no value for the ruleset part and their action.
C8_ScenarioUncached ==
    /\ QueriedWithoutRows => ~last_op.result
    /\ (/\ QueriedAfterAdd
        /\ RoleGranted(last_op.user, "part", "add")
        /\ <<"role", last_op.user, "part", last_op.permission>>
              \notin DOMAIN last_op.cache_before)
       => (~last_op.raises /\ last_op.result)

\* C8, its case: check_user_role(u, 'part', 'view') returned true after the
\* row was saved with can_add, in a session whose cache held the result of
\* another query.
C8_Witness ==
    /\ QueriedAfterAdd
    /\ last_op.op = "check_user_role"
    /\ last_op.permission = "view"
    /\ RoleGranted(last_op.user, "part", "add")
    /\ last_op.cache_before # <<>>
    /\ <<"role", last_op.user, "part", "view">>
          \notin DOMAIN last_op.cache_before
    /\ last_op.result

\* C9: a query made with no user (None) returns false and raises nothing,
\* whichever of the three queries it is.
C9_NoUserIsDenied ==
    (last_op.op \in CheckOps /\ last_op.user = None)
    => (~last_op.raises /\ ~last_op.result)

\* The permissions the innermost pass of thread t adds and removes, once
\* it has gone through the rulesets
additions(t) ==
    LET f == Head(call_stack[t])
    IN  resolved(f.permissions_to_add \ f.group_permissions)

removals(t) ==
    LET f == Head(call_stack[t])
    IN  resolved(f.permissions_to_delete \cap f.group_permissions)

\* Of those, the ones the group's permissions show, and the ones they do
\* not show yet
applied(t) ==
    LET g == Head(call_stack[t]).group
    IN  (additions(t) \cap permissions[g]) \cup (removals(t) \ permissions[g])

pending(t) ==
    LET g == Head(call_stack[t]).group
    IN  (additions(t) \ permissions[g]) \cup (removals(t) \cap permissions[g])

\* The query that ran last was made while thread t was in a pass that has
\* its additions and removals and has not ended its two loops over them,
\* and no thread has moved since
QueriedDuringPass(t) ==
    /\ last_op.op \in CheckOps
    /\ last_op.at = Position
    /\ call_stack[t] # <<>>
    /\ Head(call_stack[t]).pc \in {"add", "delete"}

\* C10: a query made while a RuleSet.save and its pass are running finds
\* neither the row changed with none of the additions and removals of the
\* pass made, nor some of them made and others not.
C10_SaveIsOneUnitForReaders ==
    \A t \in Threads :
       QueriedDuringPass(t) =>
          LET outer == call_stack[t][Len(call_stack[t])]
              g == outer.group
          IN  /\ ~(/\ rule_sets[g] # outer.caller.rows_before
                   /\ pending(t) # {}
                   /\ applied(t) = {})
              /\ ~(pending(t) # {} /\ applied(t) # {})

\* C11: when two threads have saved rows of one group at the same time and
\* both saves have returned, the group holds the permissions that a pass
\* computes from the rows as they are stored in the end (here rows of
\* rulesets that touch no table of an inheritance pair, so these are the
\* permissions the rows grant through the rule table).
C11_RacingSavesEndAsSerial ==
    (Idle /\ Saved) =>
       permissions[last_op.group] = resolved(Desired(last_op.group))

\* The permission strings of the child tables of the inheritance pairs
ChildPermissions ==
    { get_model_permission_string(ChildTable(pair), action) :
         pair \in Range(RULESET_CHANGE_INHERIT), action \in Actions }

\* C16: a save ends without an exception whether or not the lookups of its
\* pass resolve, and the pass has added every permission to add that
\* resolves and removed every permission to delete that resolves (those of
\* the child tables, which the inheritance loop may add again, left aside).
C16_FailedLookupsAreSkipped ==
    (last_op.op \in SaveOps /\ last_op.ended) =>
       /\ ~last_op.raised
       /\ resolved(last_op.permissions_to_add)
             \subseteq permissions[last_op.group]
       /\ resolved(last_op.permissions_to_delete \ ChildPermissions)
             \cap permissions[last_op.group] = {}

\* C17: the primary group of every profile is None or a group the user is
\* a member of, whatever saves, deletions and changes of membership have
\* been made.
C17_PrimaryGroupIsAGroupOfTheUser ==
    \A user \in Users :
       primary_group[user] = None \/ primary_group[user] \in user_groups[user]

\* The users and groups, as (kind, id)
Subjects ==
    { <<"user", user>> : user \in Users } \cup { <<"group", g>> : g \in Groups }

\* The subject is in the database
Exists(subject) ==
    \/ subject[1] = "user" /\ subject[2] \in DOMAIN auth_user
    \/ subject[1] = "group" /\ subject[2] \in auth_group

\* The Owner rows of a subject among `rows`
OwnersOf(subject, rows) ==
    { o \in rows : o.owner_type = subject[1] /\ o.owner_id = subject[2] }

\* C18: there is at most one Owner for every user and every group, and an
\* Owner.create for a subject that has an Owner returns that Owner and
\* creates no row.
C18_OwnerCreateIsIdempotent ==
    /\ \A subject \in Subjects : Cardinality(OwnersOf(subject, owner)) <= 1
    /\ (/\ last_op.op = "Owner.create"
        /\ OwnersOf(last_op.subject, last_op.owner_before) # {})
       => /\ last_op.result \in OwnersOf(last_op.subject, last_op.owner_before)
          /\ owner = last_op.owner_before

C18_CreateFoundAnOwner ==
    /\ last_op.op = "Owner.create"
    /\ last_op.owner_before # {}
    /\ last_op.result \in OwnersOf(last_op.subject, last_op.owner_before)
    /\ <<"user", "root">> \in { <<o.owner_type, o.owner_id>> : o \in owner }

\* C20: outside an import, every user and group that exists has exactly
\* one Owner and a deleted one has none; the creation of a user creates its
\* Owner, and a deletion deletes the Owner of the deleted subject and no
\* other.
C20_OwnerLifecycle ==
    /\ \A subject \in Subjects :
          Cardinality(OwnersOf(subject, owner)) =
             IF Exists(subject) THEN 1 ELSE 0
    /\ \A subject \in deleted : ~Exists(subject)
    /\ last_op.op \in {"User.delete", "Group.delete"}
       => /\ ~last_op.raises
          /\ owner = last_op.owner_before
                        \ OwnersOf(last_op.subject, last_op.owner_before)
          /\ OwnersOf(last_op.subject, last_op.owner_before) # {}
    /\ (last_op.op = "User.save" /\ last_op.created)
       => /\ last_op.owner_before \subseteq owner
          /\ owner \ last_op.owner_before = OwnersOf(last_op.subject, owner)

C20_CreatedAndDeleted ==
    /\ last_op.op = "User.delete"
    /\ ~last_op.raises
    /\ <<"group", "g1">> \in deleted
    /\ "g2" \in auth_group
    /\ Cardinality(owner) = 2

\* C19: when two Owner.create calls for one subject race and the insert of
\* the second hits the unique constraint, the second call returns the
\* Owner that exists, and the subject has exactly one Owner afterwards.
C19_LosingCreateReturnsTheOwner ==
    (last_op.op = "Owner.create" /\ last_op.raced)
    => /\ last_op.result \in OwnersOf(last_op.subject, owner)
       /\ Cardinality(OwnersOf(last_op.subject, owner)) = 1

\* The key of the session cache for the check_user_role query that ran last
QueriedKey == <<"role", last_op.user, last_op.role, last_op.permission>>

\* The rows grant the action of the role to the user, as they are now
GrantedNow(user, role, action) ==
    /\ action \in Actions
    /\ RoleGranted(user, role, action)

\* The query that ran last found its key in the session cache
ServedFromCache ==
    /\ Queried("check_user_role")
    /\ QueriedKey \in DOMAIN last_op.cache_before

\* C12: a check_user_role query whose key is in the session cache returns
\* the stored value and leaves the cache as it is, whatever the rows and
\* the memberships have become; and an entry of the cache keeps its value
\* through every operation other than the end of the session.
C12_StoredResultIsServed ==
    /\ [](ServedFromCache
          => /\ last_op.result = last_op.cache_before[QueriedKey]
             /\ ~last_op.raises
             /\ session_cache = last_op.cache_before)
    /\ [][\/ session_cache' = <<>>
          \/ \A key \in DOMAIN session_cache :
                /\ key \in DOMAIN session_cache'
                /\ session_cache'[key] = session_cache[key]]_vars

C12_StaleEntryServed ==
    /\ ServedFromCache
    /\ last_op.result # GrantedNow(last_op.user, last_op.role, last_op.permission)

\* The check_user_role query that ran last, made by a user who is not a
\* superuser, found nothing in the cache: its key was not stored, or the
\* cache was unavailable
ComputedFromRows ==
    \/ /\ Queried("check_user_role")
       /\ QueriedKey \notin DOMAIN last_op.cache_before
    \/ Queried("check_user_role (no cache)")

\* C13: for a user who is not a superuser, a check_user_role query that
\* finds no entry for its key, or no cache, is true exactly when a group of
\* the user has a row named after the role whose flag for the action is
\* set; it is false for a user without groups, for a role without a row and
\* for an action other than view, add, change and delete.
C13_MissIsComputedFromRows ==
    ComputedFromRows
    => /\ ~last_op.raises
       /\ last_op.result
             = GrantedNow(last_op.user, last_op.role, last_op.permission)
       /\ user_groups[last_op.user] = {} => ~last_op.result
       /\ (\A g \in user_groups[last_op.user] :
              last_op.role \notin DOMAIN rule_sets[g]) => ~last_op.result
       /\ last_op.permission \notin Actions => ~last_op.result

C13_GrantedWithoutCache ==
    /\ Queried("check_user_role (no cache)")
    /\ last_op.result
    /\ QueriedKey \in DOMAIN session_cache
    /\ ~session_cache[QueriedKey]

SuperuserOps ==
    CheckOps \cup {"check_user_role (no cache)"}

\* The query that ran last was made by a superuser
QueriedBySuperuser ==
    /\ last_op.op \in SuperuserOps
    /\ last_op.user \in Users
    /\ is_superuser[last_op.user]

\* C14: every query of a superuser (check_table_permission,
\* check_user_role, check_user_permission) is true, whatever the groups,
\* the rows and the cache hold, and leaves the session cache as it was.
C14_SuperuserPasses ==
    QueriedBySuperuser
    => /\ last_op.result
       /\ ~last_op.raises
       /\ session_cache = last_op.cache_before

\* A superuser asks what the cache answers with False for the same key
C14_CachedFalseIgnored ==
    /\ QueriedBySuperuser
    /\ last_op.op = "check_user_role"
    /\ QueriedKey \in DOMAIN last_op.cache_before
    /\ ~last_op.cache_before[QueriedKey]
    /\ user_groups[last_op.user] = {}

\* C15: check_table_permission for a table of get_ruleset_ignore is true
\* for every user and every action, whatever the groups and the rows hold,
\* and leaves the session cache as it was.
C15_ExemptTablePasses ==
    (/\ last_op.op = "check_table_permission"
     /\ last_op.user \in Users
     /\ last_op.table \in Range(get_ruleset_ignore))
    => /\ last_op.result
       /\ ~last_op.raises
       /\ session_cache = last_op.cache_before

C15_ExemptForUserWithoutGroups ==
    /\ Queried("check_table_permission")
    /\ last_op.table \in Range(get_ruleset_ignore)
    /\ last_op.permission = "delete"
    /\ user_groups[last_op.user] = {}
    /\ last_op.result

\* C30: the deletion of a user or a group ends without an exception and
\* leaves the subject deleted and without Owner, also when the subject had
\* no Owner because it was made during an import.
C30_DeleteCompletesWithoutOwner ==
    last_op.op \in {"User.delete", "Group.delete"}
    => /\ ~last_op.raises
       /\ ~Exists(last_op.subject)
       /\ OwnersOf(last_op.subject, owner) = {}

\* The User-kind Owners of the members of a group
MemberOwners(g) ==
    { o \in owner : o.owner_type = "user" /\ g \in user_groups[o.owner_id] }

\* C21: get_related_owners of the Owner of a group is the set of the
\* Owners of the users who are members of the group now, with the Owner of
\* the group itself exactly when include_group is set; of the Owner of a
\* user it is that Owner alone.
C21_RelatedOwnersFollowMembership ==
    last_op.op = "get_related_owners"
    => /\ ~last_op.raises
       /\ last_op.self.owner_type = "group"
          => last_op.result =
                MemberOwners(last_op.self.owner_id)
                   \cup (IF last_op.include_group THEN {last_op.self} ELSE {})
       /\ last_op.self.owner_type = "user"
          => last_op.result = {last_op.self}

\* The Owner of a group is asked after alice, who has an Owner, has left
\* the group, while root is a member
C21_FormerMemberLeftOut ==
    /\ last_op.op = "get_related_owners"
    /\ last_op.self.owner_type = "group"
    /\ last_op.self.owner_id \notin user_groups["alice"]
    /\ OwnersOf(<<"user", "alice">>, owner) # {}
    /\ last_op.self.owner_id \in user_groups["root"]
    /\ OwnersOf(<<"user", "root">>, owner) \subseteq last_op.result
    /\ OwnersOf(<<"user", "root">>, owner) # {}

\* C22: is_user_allowed is true exactly when the Owner of the user is among
\* get_related_owners of the Owner asked: for the Owner of a user that is
\* the user itself, for the Owner of a group a member of the group; a user
\* without Owner is denied, without an exception.
C22_AllowedIffRelated ==
    last_op.op = "is_user_allowed"
    => LET candidate == OwnersOf(<<"user", last_op.user>>, owner)
       IN  /\ ~last_op.raises
           /\ last_op.result
                 = (\E o \in candidate :
                       o \in get_related_owners(last_op.self,
                                                last_op.include_group))
           /\ candidate = {} => ~last_op.result
           /\ (candidate # {} /\ last_op.self.owner_type = "user")
              => last_op.result = (last_op.self.owner_id = last_op.user)
           /\ (candidate # {} /\ last_op.self.owner_type = "group")
              => last_op.result
                    = (last_op.self.owner_id \in user_groups[last_op.user])

\* A member of the group who has no Owner is denied
C22_MemberWithoutOwnerDenied ==
    /\ last_op.op = "is_user_allowed"
    /\ last_op.self.owner_type = "group"
    /\ last_op.self.owner_id \in user_groups[last_op.user]
    /\ OwnersOf(<<"user", last_op.user>>, owner) = {}
    /\ ~last_op.result

PassOn(g) ==
    \E t \in Threads :
       \E i \in 1..Len(call_stack[t]) : call_stack[t][i].group = g

\* The step is made by a thread that begins or runs a pass on the group
StepOn(g) ==
    \E t \in Threads :
       /\ call_stack'[t] # call_stack[t]
       /\ \/ call_stack[t] # <<>> /\ Head(call_stack[t]).group = g
          \/ call_stack'[t] # <<>> /\ Head(call_stack'[t]).group = g

\* C23: while passes on two different groups are interleaved, a step of
\* the pass on one group changes neither the rows nor the permissions of
\* the other, and a group on which no pass is running holds the
\* permissions its rows give, as after a pass that ran alone.
C23_GroupsAreIndependent ==
    /\ [](\A g \in Groups :
             ~PassOn(g) => permissions[g] = resolved(Desired(g)))
    /\ [][\A g \in Groups :
             (rule_sets'[g] # rule_sets[g] \/ permissions'[g] # permissions[g])
             => StepOn(g)]_vars

\* The pass on g2 has ended with permissions while a pass on g1, which
\* holds the same permissions, is running
C23_EndedBesideARunningPass ==
    /\ PassOn("g1")
    /\ ~PassOn("g2")
    /\ permissions["g2"] # {}
    /\ permissions["g1"] = permissions["g2"]
    /\ last_op.op \in SaveOps /\ last_op.ended /\ last_op.group = "g2"

\* The rows of the group that the save that ended last has created: those
\* that were not there before it and that it has not written itself
CreatedBySave ==
    (DOMAIN rule_sets[last_op.group] \ DOMAIN last_op.caller.rows_before)
       \ (IF last_op.op = "RuleSet.save" THEN {last_op.caller.name} ELSE {})

\* C25: a save of a group or of one of its rows comes to its end, although
\* the pass creates the missing rows and each creation begins a pass of
\* its own; at the end the group has a row for every name of
\* RULESET_CHOICES, and the rows the save has created have all flags false.
C25_SaveEndsWithAllRows ==
    /\ ~Idle ~> Idle
    /\ []((last_op.op \in SaveOps /\ last_op.ended)
          => /\ ~last_op.raised
             /\ DOMAIN rule_sets[last_op.group] = Range(RULESET_NAMES)
             /\ \A name \in CreatedBySave :
                   rule_sets[last_op.group][name] = AllFalse)

\* The save of a row of a group without rows has ended
C25_RowsCreated ==
    /\ Idle
    /\ last_op.op = "RuleSet.save"
    /\ last_op.ended
    /\ last_op.caller.rows_before = <<>>
    /\ Cardinality(CreatedBySave) = Len(RULESET_CHOICES) - 1

\* The passes that are running, outer ones included
RunningPasses ==
    UNION { { call_stack[t][i] : i \in 1..Len(call_stack[t]) } : t \in Threads }

\* No permission is both to add and to delete
Disjoint(loc) == loc.permissions_to_add \cap loc.permissions_to_delete = {}

\* C26: in a pass, no permission is among those to add and among those to
\* delete, after every round of the loop over the rulesets and after any
\* further call of add_model for a model of 'build'; at the end of the pass no permission that a
\* row of the group grants is among those to delete, whether the granting
\* ruleset was visited before or after one that refuses.
C26_AddWinsOverDelete ==
    /\ \A f \in RunningPasses :
          /\ Disjoint(f)
          /\ \A model \in Range(get_ruleset_models["build"]),
                action \in Actions, allowed \in BOOLEAN :
                Disjoint(add_model(model, action, allowed, model, f))
    /\ (last_op.op \in SaveOps /\ last_op.ended)
       => /\ Disjoint(last_op)
          /\ Desired(last_op.group) \cap last_op.permissions_to_delete = {}

\* The pass has ended with part.view_part to add: 'build' grants it and
\* 'part', the other ruleset of part_part, refuses it
C26_GrantedByOneOfTwo ==
    /\ last_op.op \in SaveOps /\ last_op.ended
    /\ rule_sets[last_op.group]["build"].can_view
    /\ ~rule_sets[last_op.group]["part"].can_view
    /\ get_model_permission_string(<<"part", "part">>, "view")
          \in last_op.permissions_to_add

\* The permissions on the table for the action that the database resolves
PermissionsOn(table, action) ==
    resolved({get_model_permission_string(table, action)})

\* C27: when a RuleSet.save has ended, for every table of a ruleset (the
\* child tables of the inheritance pairs among them) and every action that
\* no ruleset governing the table grants to the group, the group does not
\* hold the permission, and the pass has not added it to what the group
\* held before the write.
C27_NoPrivilegeOnRevocation ==
    (last_op.op = "RuleSet.save" /\ last_op.ended /\ ~last_op.raised)
    => \A table \in Tables, action \in Actions :
          ~Granted(last_op.group, table, action)
          => /\ PermissionsOn(table, action) \cap permissions[last_op.group] = {}
             /\ PermissionsOn(table, action)
                   \cap (permissions[last_op.group] \ last_op.caller.before) = {}

-----------------------------------------------------------------------------
(* SpecAgree: alice, who is no superuser, is in g1 alone; rows of g1 are   *)
(* saved and alice is checked against tables and against model             *)
(* permissions.                                                            *)

AgreeWrites ==
    { <<"g1", "part", Flag(FALSE, FALSE, TRUE, FALSE)>>,
      <<"g1", "part", Flag(FALSE, FALSE, FALSE, FALSE)>>,
      <<"g1", "build", Flag(TRUE, FALSE, FALSE, FALSE)>> }

AgreeTables ==
    { << <<"part", "part">>, "view" >>,
      << <<"part", "partparameter">>, "delete" >>,
      << <<"build", "build">>, "change" >> }

NextAgree ==
    \/ \E w \in AgreeWrites : SaveRuleSet(w[1], w[2], w[3])
    \/ \E t \in Threads : VisitRuleset(t)
    \/ \E t \in Threads : AddPermissions(t)
    \/ \E t \in Threads : DeletePermissions(t)
    \/ \E t \in Threads : InheritPermissions(t)
    \/ \E q \in AgreeTables : CheckTablePermission("alice", q[1], q[2])
    \/ \E q \in AgreeTables : CheckUserPermission("alice", q[1], q[2])
    \/ EndSession

SpecAgree == InitSession /\ [][NextAgree]_vars

\* check_user_permission(user, model class of the table, action)
MaterializedCheck(user, table, action) ==
    check_user_permission(user,
                          [app_label |-> split_model(table)[2],
                           model_name |-> split_model(table)[1]],
                          action)

\* check_table_permission(user, table, action) in a session with an empty
\* cache
TableCheck(user, table, action) ==
    check_table_permission(user, table, action, <<>>).result

\* C28: when the pass of every save has ended, for alice, who is no
\* superuser and is in g1 alone, and for every table of a ruleset and every
\* action, check_user_permission on the permissions of g1 answers what
\* check_table_permission answers on an empty cache.
C28_PathsAgree ==
    (Idle /\ n_saves > 0)
    => \A table \in Tables, action \in Actions :
          MaterializedCheck("alice", table, action)
             = TableCheck("alice", table, action)

-----------------------------------------------------------------------------
(* SpecFrame: the saves of Spec on a database where g1 was given, in the   *)
(* admin interface, permissions on users_owner, a table of no ruleset, and *)
(* a permission on part_part, which no row of g1 grants.                   *)

OtherTables == { <<"users", "owner">> }

\* What g1 holds when the saves begin
GivenPermissions ==
    { [app_label |-> <<"users">>, model |-> "owner",
       codename |-> <<"view", "owner">>],
      [app_label |-> <<"users">>, model |-> "owner",
       codename |-> <<"change", "owner">>],
      [app_label |-> <<"part">>, model |-> "part",
       codename |-> <<"view", "part">>] }

InitFrame ==
    /\ rule_sets = [g \in Groups |-> <<>>]
    /\ permissions = [g \in Groups |->
                         IF g = "g1" THEN GivenPermissions ELSE {}]
    /\ user_groups = [alice |-> Groups, root |-> {}]
    /\ content_type = { ContentTypeOf(t) : t \in Tables \cup OtherTables }
    /\ auth_permission = UNION { default_permissions(ct) : ct \in content_type }
    /\ api_token = {}
    /\ session_cache = <<>>
    /\ call_stack = [t \in Threads |-> <<>>]
    /\ last_op = [op |-> "init"]
    /\ n_saves = 0
    /\ n_checks = 0
    /\ Registered

SpecFrame == InitFrame /\ [][Next]_vars

\* The permissions among perms on tables that are in no ruleset
Ungoverned(perms) ==
    { p \in perms : Append(p.app_label, p.model) \notin Tables }

\* C29: no step of a pass takes from a group a permission on a table that
\* is in no ruleset, and no step of a pass removes a RuleSet row or changes
\* a flag of a row that exists; a save that has ended has left to its group
\* the permissions on such tables that it held before.
C29_PassKeepsTheRest ==
    /\ [][~Idle =>
            \A g \in Groups :
               /\ Ungoverned(permissions[g]) \subseteq permissions'[g]
               /\ \A name \in DOMAIN rule_sets[g] :
                     /\ name \in DOMAIN rule_sets'[g]
                     /\ rule_sets'[g][name] = rule_sets[g][name]]_vars
    /\ []((last_op.op \in SaveOps /\ last_op.ended)
          => Ungoverned(last_op.caller.before)
                \subseteq permissions[last_op.group])

\* A save of g1 has ended: its passes created rows and removed
\* part.view_part, and g1 holds users.view_owner and users.change_owner as
\* before
C29_OwnerPermissionsKept ==
    /\ last_op.op \in SaveOps /\ last_op.ended /\ ~last_op.raised
    /\ last_op.group = "g1"
    /\ DOMAIN last_op.caller.rows_before # DOMAIN rule_sets["g1"]
    /\ Ungoverned(last_op.caller.before) # {}
    /\ [app_label |-> <<"part">>, model |-> "part",
        codename |-> <<"view", "part">>]
          \in last_op.caller.before \ permissions["g1"]
    /\ Ungoverned(GivenPermissions) \subseteq permissions["g1"]

====
